---- MODULE Spec2Model ----
(***************************************************************************)
(* State-machine model of the search / embedding engine of the email       *)
(* backend: EmailService's debounced embedding batches, SearchService's    *)
(* index upserts, and EmbeddingService's quota governor, rate gate and     *)
(* local-model loader.                                                     *)
(*                                                                         *)
(* The process is a single Node.js event loop: every action below is one   *)
(* synchronous segment of code (from one await / timer callback to the     *)
(* next), so the interleavings of the model are the interleavings of the   *)
(* program.  Date.now() is the variable now; timers become enabled once    *)
(* now has reached their due time and may fire late.                       *)
(***************************************************************************)
EXTENDS Integers, Sequences, FiniteSets, TLC

(***************************************************************************)
(* Bounds of the model                                                     *)
(***************************************************************************)
MaxDocs == 2
MaxTimers == 3
MaxDebounceTicks == 2
NumCallers == 2
NumQuotaCallers == 1
MaxQuotaTicks == 2
MaxRateTicks == 1
MaxGrowths == 9
MaxLocalTicks == 3
MaxVectorLen == 3
MaxWidth == 4
MaxIndexCalls == 2
MaxInputDocs == 1
MaxStatusCalls == 1
MaxSemanticTicks == 1

Owners == {"u1", "u2"}
DocIds == 1..MaxDocs

(***************************************************************************)
(* Program constants                                                       *)
(***************************************************************************)
DebounceMs == 5000
minRequestDelay == 1000
JitterMaxMs == 500
BaseCooldownMs == 60 * 60 * 1000
MaxCooldownMs == 24 * 60 * 60 * 1000
RateBackoffMs == 8000
batchSize == 10
EmbeddingDimensions == 768
PollIntervalMs == 1000
MaxPollAttempts == 30

\* Date.now() at start-up: far from lastRequestTime = 0.
StartTime == 10 * minRequestDelay

\* The steps by which time passes when no timer is due.
DebounceStep == DebounceMs \div 2
QuotaStep == BaseCooldownMs \div 2
RateStep == minRequestDelay \div 4
LocalStep == PollIntervalMs

NoTimer == 0
NoRow == 0
Null == "NULL"

VARIABLES
  now,                  \* Date.now()
  ticks,                \* number of steps of time taken (bounds the model)
  gmail,                \* Gmail: the detail of each message (immutable per id)
  pendingEmbeddingJobs, \* EmailService.pendingEmbeddingJobs: owner -> timer
  timers,               \* setTimeout handles that are armed or whose callback runs
  nextTimerId,          \* identity of the next Timeout object
  windowRuns,           \* history: per debounce window, callbacks that reached bulkIndexEmails
  emailRows,            \* table emails
  nextEmailId,          \* primary-key sequence of table emails
  indexCalls,           \* indexEmail / bulkIndexEmails calls in progress
  nextCallId,           \* identity of the next call
  indexLog,             \* history: per key, the contents indexed and the calls that succeeded
  provider,             \* EmbeddingService.provider
  geminiModel,          \* EmbeddingService.geminiModel !== null
  quotaState,           \* quotaExceeded, quotaExceededUntil, quotaCooldownMs, quotaErrorLogged
  lastRequestTime,      \* EmbeddingService.lastRequestTime
  embedCalls,           \* generateEmbeddingGemini activations, per caller
  batch,                \* the generateEmbeddingsBatchGemini activation
  cooldowns,            \* history: durations of the cooldowns entered since the last success
  cooldownCause,        \* history: the answer of embedContent that started the latest cooldown
  booted,               \* where onModuleInit is: "start", "loading", "ready"
  localModel,           \* EmbeddingService.localModel !== null
  isLocalModelLoading,  \* EmbeddingService.isLocalModelLoading
  loads,                \* initializeLocalModel activations that are loading the model
  localCalls,           \* generateEmbeddingLocal / generateEmbeddingsBatchLocal activations
  padCase,              \* a call of padEmbedding: its arguments and its result
  columnOf,             \* emails.kanbanColumnId joined with the column: <<row id, column name>>
  statusCall,           \* the updateEmailStatus activation
  lexSearch,            \* the searchEmails activation
  deleted,              \* history: per key, the saves seen when deleteEmail returned
  primaryCall,          \* the reindexMailboxEmails / sendEmail activation
  vectorRows,           \* table email_vectors
  storeCall,            \* the generateAndStoreEmbedding activation
  semSearch,            \* the searchSemantic activation
  embedLoops            \* background embedding loops started by bulkIndexEmails

debounceVars == <<gmail, pendingEmbeddingJobs, timers, nextTimerId, windowRuns>>
indexVars == <<emailRows, nextEmailId, indexCalls, nextCallId, indexLog>>
embedVars == <<provider, geminiModel, quotaState, lastRequestTime, embedCalls,
               batch, cooldowns, cooldownCause>>
localVars == <<booted, localModel, isLocalModelLoading, loads, localCalls>>
padVars == <<padCase>>
lexVars == <<columnOf, statusCall, lexSearch, deleted>>
primaryVars == <<primaryCall>>
semVars == <<vectorRows, storeCall, semSearch>>
loopVars == <<embedLoops>>
auxVars == <<padVars, lexVars, primaryVars, semVars, loopVars>>
clock == <<now, ticks>>
vars == <<clock, debounceVars, indexVars, embedVars, localVars, auxVars>>

(***************************************************************************)
(* EmailService: document mapping                                          *)
(***************************************************************************)
\* The message details Gmail serves in the model: one whose body is markup
\* only and has no date, one with text.
InvoiceDetail ==
  [subject |-> "Invoice #100", from |-> "Billing <billing@x.com>",
   body |-> "<br>", receivedDate |-> ""]

LunchDetail ==
  [subject |-> "Team Lunch", from |-> "hr@x.com",
   body |-> "<p>hello</p>", receivedDate |-> "2024-01-01T00:00:00.000Z"]

Details == {InvoiceDetail, LunchDetail}

\* Two more for the searches: the words of "Team Lunch" in another order,
\* and a message that names the lunch in its body only.
ReorderDetail ==
  [subject |-> "Lunch Team", from |-> "hr@x.com",
   body |-> "<p>hello</p>", receivedDate |-> "2024-01-01T00:00:00.000Z"]

NotesDetail ==
  [subject |-> "Notes", from |-> "hr@x.com",
   body |-> "<p>team lunch at noon</p>", receivedDate |-> ""]

LexDetails == Details \cup {ReorderDetail, NotesDetail}

\* And the reordered message with the same sender, received a year earlier.
OlderDetail ==
  [subject |-> "Lunch Team", from |-> "hr@x.com",
   body |-> "<p>hello</p>", receivedDate |-> "2023-01-01T00:00:00.000Z"]

\* stripHtmlTags on the bodies of the model: tags become blanks, blanks are
\* collapsed and trimmed.
stripHtmlTags(html) ==
  CASE html = "" -> ""
    [] html = "<br>" -> ""
    [] html = "<p>hello</p>" -> "hello"
    [] html = "<p>team lunch at noon</p>" -> "team lunch at noon"

\* extractNameFromEmail: the display name of "Name <addr>", else the input.
extractNameFromEmail(from) ==
  CASE from = "Billing <billing@x.com>" -> "Billing"
    [] from = "hr@x.com" -> "hr@x.com"

\* mapToSearchDocument(gmailId, detail): the bodies of the model are shorter
\* than 200 characters, so snippet and bodyText are the stripped body.
mapToSearchDocument(gmailId, detail) ==
  [id |-> gmailId,
   subject |-> detail.subject,
   senderName |-> extractNameFromEmail(detail.from),
   senderEmail |-> detail.from,
   snippet |-> stripHtmlTags(detail.body),
   receivedAt |-> detail.receivedDate,
   bodyText |-> stripHtmlTags(detail.body)]

\* emails.map(mapToSearchDocument).filter((doc) => doc.bodyText)
docsWithBody(emails) ==
  {doc \in {mapToSearchDocument(d, gmail[d]) : d \in emails} : doc.bodyText # ""}

(***************************************************************************)
(* SearchService.indexEmail / bulkIndexEmails over table emails            *)
(***************************************************************************)
\* The documents requests hand to SearchService directly.
InputDocs == {mapToSearchDocument(d, det) : d \in 1..MaxInputDocs, det \in Details}

\* x || null
OrNull(x) == IF x = "" THEN Null ELSE x

\* The search fields the calls assign to the entity (lines 72-77).
searchFields(doc) ==
  [subject |-> doc.subject,
   senderName |-> doc.senderName,
   senderEmail |-> doc.senderEmail,
   snippet |-> OrNull(doc.snippet),
   receivedAt |-> OrNull(doc.receivedAt),
   bodyText |-> OrNull(doc.bodyText)]

rowsOfKey(rows, u, g) == {r \in rows : r.userId = u /\ r.gmailId = g}

\* emailRepository.findOne({where: {userId, gmailId}}): the row's id, or none.
findOne(rows, u, g) ==
  IF rowsOfKey(rows, u, g) = {} THEN NoRow
  ELSE (CHOOSE r \in rowsOfKey(rows, u, g) : TRUE).id

\* @Unique(['userId', 'gmailId']): an INSERT of the key is rejected when a
\* row of the key exists.
NoUniqueConstraint(rows, u, g) == FALSE

uniqueViolation(rows, u, g) == rowsOfKey(rows, u, g) # {}

\* The entities of one call ordered by gmailId: the order of the INSERTs.
RECURSIVE insertOrder(_)
insertOrder(S) ==
  IF S = {} THEN <<>>
  ELSE LET e == CHOOSE x \in S : \A y \in S : x.doc.id <= y.doc.id
       IN <<e>> \o insertOrder(S \ {e})

IndexOf(seq, e) == CHOOSE i \in 1..Len(seq) : seq[i] = e

\* emailRepository.save(entities) in one transaction: entities loaded from
\* the table are UPDATEd by id, new ones INSERTed.  The save is rejected as
\* a whole, and the table left as it is, when an INSERT violates the unique
\* constraint.
saveEntities(rows, u, entities) ==
  LET inserts == {e \in entities : e.pk = NoRow}
      updates == entities \ inserts
      order == insertOrder(inserts)
      updated == {r \in rows : \E e \in updates : e.pk = r.id}
      rowOf(e, pk) == [id |-> pk, userId |-> u, gmailId |-> e.doc.id,
                       fields |-> searchFields(e.doc)]
  IN IF \E e \in inserts : uniqueViolation(rows, u, e.doc.id)
       THEN [ok |-> FALSE, rows |-> rows]
       ELSE [ok |-> TRUE,
             rows |-> (rows \ updated)
               \cup {rowOf(e, e.pk) : e \in updates}
               \cup {rowOf(e, nextEmailId + IndexOf(order, e) - 1) : e \in inserts}]

Keys == Owners \X DocIds

logStart(log, u, docs) ==
  [k \in Keys |->
     IF k[1] = u /\ \E doc \in docs : doc.id = k[2]
       THEN [log[k] EXCEPT !.contents = @ \cup {doc \in docs : doc.id = k[2]}]
       ELSE log[k]]

logSaved(log, u, docs, kind) ==
  [k \in Keys |->
     IF k[1] = u /\ \E doc \in docs : doc.id = k[2]
       THEN [log[k] EXCEPT !.saved = @ + 1, !.kinds = @ \cup {kind}]
       ELSE log[k]]

docsOf(c) == {e.doc : e \in c.entities}

\* A call begins: indexEmail(u, doc) or bulkIndexEmails(u, docs) with docs
\* not empty; caller is the timer whose callback awaits it, if any.
newCall(kind, caller, u, docs) ==
  [id |-> nextCallId, kind |-> kind, caller |-> caller, owner |-> u,
   entities |-> {[doc |-> doc, pk |-> NoRow] : doc \in docs}, pc |-> "find"]

distinctIds(docs) == \A a, b \in docs : a.id = b.id => a = b

IndexEmailStart(u, doc) ==
  /\ nextCallId <= MaxIndexCalls
  /\ indexCalls' = indexCalls \cup {newCall("single", NoTimer, u, {doc})}
  /\ nextCallId' = nextCallId + 1
  /\ indexLog' = logStart(indexLog, u, {doc})
  /\ UNCHANGED <<clock, auxVars, localVars, embedVars, debounceVars, emailRows, nextEmailId>>

\* reindexMailboxEmails -> bulkIndexEmails(u, docs)
BulkIndexStart(u, docs) ==
  /\ nextCallId <= MaxIndexCalls
  /\ docs # {}
  /\ distinctIds(docs)
  /\ indexCalls' = indexCalls \cup {newCall("bulk", NoTimer, u, docs)}
  /\ nextCallId' = nextCallId + 1
  /\ indexLog' = logStart(indexLog, u, docs)
  /\ UNCHANGED <<clock, auxVars, localVars, embedVars, debounceVars, emailRows, nextEmailId>>

\* The findOne of every document has answered.
IndexFind(c) ==
  /\ c.pc = "find"
  /\ indexCalls' = (indexCalls \ {c}) \cup
       {[c EXCEPT !.pc = "save",
                  !.entities = {[doc |-> e.doc,
                                 pk |-> findOne(emailRows, c.owner, e.doc.id)]
                                : e \in c.entities}]}
  /\ UNCHANGED <<clock, auxVars, localVars, embedVars, debounceVars, emailRows, nextEmailId, nextCallId, indexLog>>

\* The call settles: a call awaited by a timer callback stays, settled,
\* until the callback resumes.
settle(calls, c, outcome) ==
  IF c.caller = NoTimer THEN calls \ {c}
  ELSE (calls \ {c}) \cup {[c EXCEPT !.pc = outcome]}

InitIndex ==
  /\ emailRows = {}
  /\ nextEmailId = 1
  /\ indexCalls = {}
  /\ nextCallId = 1
  /\ indexLog = [k \in Keys |-> [contents |-> {}, saved |-> 0, kinds |-> {}]]

(***************************************************************************)
(* EmbeddingService with the Gemini provider: quota governor, rate gate    *)
(***************************************************************************)
Callers == 1..NumCallers

\* The callers that searchSemantic and generateAndStoreEmbedding are.
SemCaller == 1
StoreCaller == 2
Texts == {"", "a", "b"}

\* Math.random() * 500: two of the delays it can give.
JitterChoices == {0, JitterMaxMs \div 2}

\* What embedContent can answer: a vector of the configured width ("ok"), a
\* vector of 384 entries ("badDims"), a vector of 429 entries ("dims429"), an
\* error of status 429 on the quota ("err429"), an error of status 503
\* ("err503").
ProviderOutcomes == {"ok", "badDims", "dims429", "err429", "err503"}

\* The message of the error that the catch block sees, as the set of the
\* tested substrings it contains. A vector of the wrong width n raises
\* "Invalid embedding dimensions: expected 768, got n".
errorMessage(outcome) ==
  CASE outcome = "badDims" -> {}
    [] outcome = "dims429" -> {"429"}
    [] outcome = "err429" -> {"429", "quota"}
    [] outcome = "err503" -> {"503"}
    [] OTHER -> {}

\* The tests of the catch block, in their order (lines 570 and 577).
isQuotaClass(message) ==
  "429" \in message \/ "quota" \in message \/ "Quota exceeded" \in message

isRateClass(message) ==
  "429" \in message \/ "503" \in message \/ "rate limit" \in message

NoVector == [of |-> "", dims |-> 0]
vectorOf(text) == [of |-> text, dims |-> EmbeddingDimensions]

Min2(a, b) == IF a <= b THEN a ELSE b

idleCall == [pc |-> "idle", wakeAt |-> 0, result |-> "none", gated |-> FALSE]

\* A call that has returned or thrown after a wait: an item of a batch
\* leaves its outcome for the batch to collect (embeddings[index]), a call
\* that a search or generateAndStoreEmbedding awaits leaves it for them.
finished(c, call, result) ==
  IF \/ batch.pc = "running" /\ c <= Len(batch.texts)
     \/ semSearch.pc = "embed" /\ c = SemCaller
     \/ storeCall.pc = "embed" /\ c = StoreCaller
     \/ embedLoops[c].pc = "embed"
    THEN [idleCall EXCEPT !.result = result, !.gated = call.gated]
    ELSE [idleCall EXCEPT !.gated = call.gated]

\* The governor is in Cooldown.
InCooldown(q) == q.quotaExceeded /\ now < q.quotaExceededUntil

\* A governor whose cooldown never expires.
NeverExpires(q) == [value |-> q.quotaExceeded, state |-> q]

\* isQuotaExceeded(): its value, and the fields after it (an expired
\* cooldown is cleared by the call).
isQuotaExceeded(q) ==
  IF ~q.quotaExceeded THEN [value |-> FALSE, state |-> q]
  ELSE IF now >= q.quotaExceededUntil
    THEN [value |-> FALSE,
          state |-> [q EXCEPT !.quotaExceeded = FALSE, !.quotaExceededUntil = 0,
                              !.quotaErrorLogged = FALSE]]
    ELSE [value |-> TRUE, state |-> q]

\* handleQuotaError()
handleQuotaError(q) ==
  IF ~q.quotaExceeded
    THEN [q EXCEPT !.quotaExceeded = TRUE,
                   !.quotaExceededUntil = now + q.quotaCooldownMs,
                   !.quotaErrorLogged = TRUE]
    ELSE q

\* A governor whose cooldown length never grows.
NoGrowth(ms) == ms

\* this.quotaCooldownMs = Math.min(this.quotaCooldownMs * 1.5, 24h): the
\* values below the ceiling are whole numbers of milliseconds.
growCooldown(ms) == Min2((ms * 3) \div 2, MaxCooldownMs)

\* The quota fields after a successful request (lines 556-562).
afterSuccess(q) ==
  IF q.quotaExceeded
    THEN [q EXCEPT !.quotaExceeded = FALSE, !.quotaExceededUntil = 0,
                   !.quotaErrorLogged = FALSE]
    ELSE q

\* A provider without the quota gate.
NoGate(q) == FALSE

\* The quota gate at the start of generateEmbeddingGemini: whether the call
\* is refused.
quotaGate(q) == isQuotaExceeded(q).value

\* generateEmbedding(text) up to its first await: the call's record and the
\* quota fields after it.
startCall(q, text, jitter) ==
  IF text = ""
    THEN [call |-> [idleCall EXCEPT !.result = "EmptyText"],
          state |-> q]
  ELSE IF ~geminiModel
    THEN [call |-> [idleCall EXCEPT !.result = "NotInitialized"],
          state |-> q]
  ELSE IF quotaGate(q)
    THEN [call |-> [idleCall EXCEPT !.result = "QuotaExceeded",
                                    !.gated = InCooldown(q)],
          state |-> isQuotaExceeded(q).state]
  ELSE LET timeSinceLastRequest == now - lastRequestTime
       IN [call |-> [pc |-> IF timeSinceLastRequest < minRequestDelay
                              THEN "delay" ELSE "jitter",
                     wakeAt |-> IF timeSinceLastRequest < minRequestDelay
                                  THEN now + (minRequestDelay - timeSinceLastRequest)
                                  ELSE now + jitter,
                     result |-> "none",
                     gated |-> InCooldown(q)],
           state |-> isQuotaExceeded(q).state]

\* The callers a running batch occupies.
batchItems == IF batch.pc = "running" THEN 1..Len(batch.texts) ELSE {}

\* A request (generateAndStoreEmbedding, searchSemantic) calls
\* generateEmbedding(text).
EmbedStart(c, text) ==
  /\ provider = "gemini"
  /\ embedCalls[c].pc = "idle"
  /\ c \notin batchItems
  /\ \E jitter \in JitterChoices :
       LET r == startCall(quotaState, text, jitter)
       IN /\ embedCalls' = [embedCalls EXCEPT ![c] = r.call]
          /\ quotaState' = r.state
  /\ UNCHANGED <<clock, auxVars, localVars, debounceVars, indexVars, provider, geminiModel,
                 lastRequestTime, batch, cooldowns, cooldownCause>>

\* The calls of one group of a batch start one after the other in the same
\* synchronous segment (texts.map(async ...)): the records of the first k
\* calls and the quota fields after them.
RECURSIVE startGroup(_, _, _, _)
startGroup(q, texts, jitters, k) ==
  IF k = 0 THEN [calls |-> <<>>, state |-> q]
  ELSE LET before == startGroup(q, texts, jitters, k - 1)
           r == startCall(before.state, texts[k], jitters[k])
       IN [calls |-> Append(before.calls, r.call), state |-> r.state]

\* generateEmbeddingsBatch(texts) with the Gemini provider, texts not empty
\* and within one group of batchSize.
BatchStart(texts) ==
  /\ provider = "gemini"
  /\ batch.pc # "running"
  /\ Len(texts) <= batchSize
  /\ \A c \in 1..Len(texts) : embedCalls[c].pc = "idle"
  /\ \E jitters \in [1..Len(texts) -> JitterChoices] :
       LET g == startGroup(quotaState, texts, jitters, Len(texts))
       IN /\ embedCalls' = [c \in Callers |->
                              IF c <= Len(texts) THEN g.calls[c] ELSE embedCalls[c]]
          /\ quotaState' = g.state
  /\ batch' = [pc |-> "running", texts |-> texts, result |-> <<>>]
  /\ UNCHANGED <<clock, auxVars, localVars, debounceVars, indexVars, provider, geminiModel,
                 lastRequestTime, cooldowns, cooldownCause>>

\* The rate-limit delay is over: the jitter delay begins.
DelayElapsed(c) ==
  /\ embedCalls[c].pc = "delay"
  /\ now >= embedCalls[c].wakeAt
  /\ \E jitter \in JitterChoices :
       embedCalls' = [embedCalls EXCEPT ![c].pc = "jitter", ![c].wakeAt = now + jitter]
  /\ UNCHANGED <<clock, auxVars, localVars, debounceVars, indexVars, provider, geminiModel, quotaState,
                 lastRequestTime, batch, cooldowns, cooldownCause>>

\* The jitter delay is over: lastRequestTime = Date.now() and the request
\* embedContent(processedText) goes out.
Send(c) ==
  /\ embedCalls[c].pc = "jitter"
  /\ now >= embedCalls[c].wakeAt
  /\ embedCalls' = [embedCalls EXCEPT ![c].pc = "inflight", ![c].wakeAt = 0]
  /\ lastRequestTime' = now
  /\ UNCHANGED <<clock, auxVars, localVars, debounceVars, indexVars, provider, geminiModel, quotaState,
                 batch, cooldowns, cooldownCause>>

\* The quota fields after the catch block has seen a quota-class error.
afterQuotaError(q) ==
  [handleQuotaError(q) EXCEPT !.quotaCooldownMs = growCooldown(q.quotaCooldownMs)]

\* embedContent has answered (lines 533-588).
Respond(c, outcome) ==
  /\ embedCalls[c].pc = "inflight"
  /\ IF outcome = "ok"
       THEN /\ quotaState' = afterSuccess(quotaState)
            /\ embedCalls' = [embedCalls EXCEPT ![c] = finished(c, @, "ok")]
            /\ cooldowns' = <<>>
            /\ UNCHANGED cooldownCause
     ELSE IF isQuotaClass(errorMessage(outcome))
       THEN /\ quotaState' = afterQuotaError(quotaState)
            /\ embedCalls' = [embedCalls EXCEPT ![c] = finished(c, @, "QuotaError")]
            /\ cooldowns' = IF quotaState.quotaExceeded THEN cooldowns
                            ELSE Append(cooldowns,
                                   afterQuotaError(quotaState).quotaExceededUntil - now)
            /\ cooldownCause' = IF quotaState.quotaExceeded THEN cooldownCause
                                ELSE outcome
     ELSE IF isRateClass(errorMessage(outcome))
       THEN /\ embedCalls' = [embedCalls EXCEPT ![c].pc = "backoff",
                                                ![c].wakeAt = now + RateBackoffMs]
            /\ UNCHANGED <<quotaState, cooldowns, cooldownCause>>
     ELSE /\ embedCalls' = [embedCalls EXCEPT ![c] = finished(c, @, "Error")]
          /\ UNCHANGED <<quotaState, cooldowns, cooldownCause>>
  /\ UNCHANGED <<clock, auxVars, localVars, debounceVars, indexVars, provider, geminiModel,
                 lastRequestTime, batch>>

\* The back-off after a rate-limit error is over: the call throws.
BackoffElapsed(c) ==
  /\ embedCalls[c].pc = "backoff"
  /\ now >= embedCalls[c].wakeAt
  /\ embedCalls' = [embedCalls EXCEPT ![c] = finished(c, @, "RateLimited")]
  /\ UNCHANGED <<clock, auxVars, localVars, debounceVars, indexVars, provider, geminiModel, quotaState,
                 lastRequestTime, batch, cooldowns, cooldownCause>>

\* embeddings[index] of every call of the group, then the value returned:
\* embeddings.filter((e) => e !== null).
groupEmbeddings(texts) ==
  [i \in 1..Len(texts) |->
     IF embedCalls[i].result = "ok" THEN vectorOf(texts[i]) ELSE NoVector]

batchResult(embeddings) == SelectSeq(embeddings, LAMBDA e : e # NoVector)

\* Promise.all of the group has resolved; the batch returns.
BatchCollect ==
  /\ batch.pc = "running"
  /\ \A c \in batchItems : embedCalls[c].pc = "idle"
  /\ batch' = [batch EXCEPT !.pc = "done",
                            !.result = batchResult(groupEmbeddings(batch.texts))]
  /\ UNCHANGED <<clock, auxVars, localVars, debounceVars, indexVars, provider, geminiModel, quotaState,
                 lastRequestTime, embedCalls, cooldowns, cooldownCause>>

\* isAvailable() with the Gemini provider: its value.
isAvailable(q) == geminiModel /\ ~isQuotaExceeded(q).value

\* A caller asks isAvailable(); the call clears an expired cooldown.
IsAvailable ==
  /\ provider = "gemini"
  /\ quotaState' = isQuotaExceeded(quotaState).state
  /\ UNCHANGED <<clock, auxVars, localVars, debounceVars, indexVars, provider, geminiModel,
                 lastRequestTime, embedCalls, batch, cooldowns, cooldownCause>>

\* The fields after the constructor; with provider gemini and an API key
\* it runs initializeGemini and resetQuotaState.
InitGemini(p) ==
  /\ provider = p
  /\ geminiModel = (p = "gemini")
  /\ quotaState = [quotaExceeded |-> FALSE, quotaExceededUntil |-> 0,
                   quotaCooldownMs |-> BaseCooldownMs, quotaErrorLogged |-> FALSE]
  /\ lastRequestTime = 0
  /\ embedCalls = [c \in Callers |-> idleCall]
  /\ batch = [pc |-> "idle", texts |-> <<>>, result |-> <<>>]
  /\ cooldowns = <<>>
  /\ cooldownCause = "none"

(***************************************************************************)
(* EmbeddingService with the local provider: loading the model             *)
(***************************************************************************)
\* The owner of the load that onModuleInit starts.
Startup == 0

idleLocal == [pc |-> "idle", kind |-> "none", attempts |-> 0, wakeAt |-> 0,
              result |-> "none", duringLoad |-> "none"]

\* A guard that looks at the model only.
GuardIgnoresLoading == localModel

\* initializeLocalModel returns at once (line 441).
loadGuard == localModel \/ isLocalModelLoading

\* initializeLocalModel up to its first await, when the guard lets it pass.
beginLoad(owner) ==
  /\ isLocalModelLoading' = TRUE
  /\ loads' = loads \cup {[owner |-> owner, modelWasLoaded |-> localModel]}

\* onModuleInit with the local provider.
OnModuleInit ==
  /\ provider = "local"
  /\ booted = "start"
  /\ IF loadGuard
       THEN booted' = "ready" /\ UNCHANGED <<isLocalModelLoading, loads>>
       ELSE booted' = "loading" /\ beginLoad(Startup)
  /\ UNCHANGED <<clock, auxVars, debounceVars, indexVars, embedVars, localModel, localCalls>>

\* The call of caller c has reached "await this.initializeLocalModel()".
awaitInitialize(c, call) ==
  IF loadGuard
    THEN \* the call returns at once; the model is still missing
         /\ localCalls' = [localCalls EXCEPT ![c] =
              [call EXCEPT !.pc = "idle", !.wakeAt = 0, !.attempts = 0,
                           !.result = IF localModel THEN "none" ELSE "FailedToLoad"]]
         /\ UNCHANGED <<isLocalModelLoading, loads>>
    ELSE /\ localCalls' = [localCalls EXCEPT ![c] =
              [call EXCEPT !.pc = "loading", !.wakeAt = 0, !.attempts = 0]]
         /\ beginLoad(c)

\* Whether a call arrives while a load is in progress.
arrival == IF isLocalModelLoading THEN "running" ELSE "none"

\* A request calls generateEmbedding(text) ("embed") or
\* generateEmbeddingsBatch(texts) ("batch") with the local provider, up to
\* the first await. Requests are served once onModuleInit has returned.
beginLocal(c, kind) ==
  LET call == [idleLocal EXCEPT !.kind = kind, !.duringLoad = arrival]
  IN IF localModel
       THEN /\ localCalls' = [localCalls EXCEPT ![c] = [call EXCEPT !.pc = "infer"]]
            /\ UNCHANGED <<isLocalModelLoading, loads>>
     ELSE IF kind = "embed" /\ isLocalModelLoading
       THEN /\ localCalls' = [localCalls EXCEPT ![c] =
                 [call EXCEPT !.pc = "poll", !.wakeAt = now + PollIntervalMs]]
            /\ UNCHANGED <<isLocalModelLoading, loads>>
     ELSE awaitInitialize(c, call)

LocalStart(c, kind) ==
  /\ provider = "local"
  /\ booted = "ready"
  /\ localCalls[c].pc = "idle"
  /\ beginLocal(c, kind)
  /\ UNCHANGED <<clock, auxVars, debounceVars, indexVars, embedVars, booted, localModel>>

\* One turn of the loop "while (isLocalModelLoading && attempts < 30)" is
\* over; when the loop ends, the call goes on to line 606.
\* A loop that polls as long as a load is in progress.
PollsWhileLoading(attempts) == isLocalModelLoading

\* while (this.isLocalModelLoading && attempts < 30)
pollAgain(attempts) == isLocalModelLoading /\ attempts < MaxPollAttempts

PollWake(c) ==
  /\ localCalls[c].pc = "poll"
  /\ now >= localCalls[c].wakeAt
  /\ LET call == [localCalls[c] EXCEPT !.attempts = @ + 1]
     IN IF pollAgain(call.attempts)
          THEN /\ localCalls' = [localCalls EXCEPT ![c] =
                    [call EXCEPT !.wakeAt = now + PollIntervalMs]]
               /\ UNCHANGED <<isLocalModelLoading, loads>>
        ELSE IF localModel
          THEN /\ localCalls' = [localCalls EXCEPT ![c] =
                    [call EXCEPT !.pc = "infer", !.wakeAt = 0, !.attempts = 0]]
               /\ UNCHANGED <<isLocalModelLoading, loads>>
        ELSE awaitInitialize(c, call)
  /\ UNCHANGED <<clock, auxVars, debounceVars, indexVars, embedVars, booted, localModel>>

\* The import and the pipeline of a load have ended (lines 449-475): the
\* model is set or null, the flag is cleared, and the owner goes on.
LoadFinish(l, outcome) ==
  /\ l \in loads
  /\ localModel' = (outcome = "ok")
  /\ isLocalModelLoading' = FALSE
  /\ loads' = loads \ {l}
  /\ booted' = IF l.owner = Startup THEN "ready" ELSE booted
  /\ localCalls' = [c \in Callers |->
       LET call == [localCalls[c] EXCEPT
                      !.duringLoad = IF @ = "running" THEN outcome ELSE @]
       IN IF c # l.owner THEN call
          ELSE IF outcome = "ok" THEN [call EXCEPT !.pc = "infer"]
          ELSE [call EXCEPT !.pc = "idle", !.result = "FailedToLoad"]]
  /\ UNCHANGED <<clock, auxVars, debounceVars, indexVars, embedVars>>

\* The model has answered the call (or thrown): the call is over.
Infer(c, outcome) ==
  /\ localCalls[c].pc = "infer"
  /\ localCalls' = [localCalls EXCEPT ![c] = [idleLocal EXCEPT !.result = outcome]]
  /\ UNCHANGED <<clock, auxVars, debounceVars, indexVars, embedVars, booted, localModel,
                 isLocalModelLoading, loads>>

\* The fields of the local provider after the constructor.
InitLocal ==
  /\ booted = "start"
  /\ localModel = FALSE
  /\ isLocalModelLoading = FALSE
  /\ loads = {}
  /\ localCalls = [c \in Callers |-> idleLocal]

(***************************************************************************)
(* SemanticSearchService.padEmbedding                                      *)
(***************************************************************************)
\* Entries of the vectors handed to padEmbedding, and the vectors.
PadValues == {-1, 0, 1}
PadVectors == UNION {[1..n -> PadValues] : n \in 0..MaxVectorLen}
PadWidths == 1..MaxWidth

\* An adapter that hands every vector back as it is.
NoPadding(embedding, targetDimensions) == embedding

\* padEmbedding(embedding, targetDimensions)
padEmbedding(embedding, targetDimensions) ==
  IF Len(embedding) = targetDimensions THEN embedding
  ELSE IF Len(embedding) > targetDimensions
    THEN SubSeq(embedding, 1, targetDimensions)
  ELSE embedding \o [i \in 1..(targetDimensions - Len(embedding)) |-> 0]

noPadCase == [embedding |-> <<>>, targetDimensions |-> 0, result |-> <<>>,
              called |-> FALSE]

\* The call padEmbedding(embedding, targetDimensions) returns.
Pad(embedding, targetDimensions) ==
  /\ padCase' = [embedding |-> embedding, targetDimensions |-> targetDimensions,
                 result |-> padEmbedding(embedding, targetDimensions),
                 called |-> TRUE]
  /\ UNCHANGED <<clock, debounceVars, indexVars, embedVars, localVars, lexVars,
                 primaryVars, semVars, loopVars>>

InitPad == padCase = noPadCase

(***************************************************************************)
(* Text in the store: LOWER, LIKE and pg_trgm similarity                   *)
(***************************************************************************)
\* The strings of the model as sequences of characters.
chars(s) ==
  CASE s = "" -> <<>>
    [] s = "Invoice #100" -> <<"I", "n", "v", "o", "i", "c", "e", " ", "#", "1", "0", "0">>
    [] s = "Team Lunch" -> <<"T", "e", "a", "m", " ", "L", "u", "n", "c", "h">>
    [] s = "Lunch Team" -> <<"L", "u", "n", "c", "h", " ", "T", "e", "a", "m">>
    [] s = "Notes" -> <<"N", "o", "t", "e", "s">>
    [] s = "Billing" -> <<"B", "i", "l", "l", "i", "n", "g">>
    [] s = "hr@x.com" -> <<"h", "r", "@", "x", ".", "c", "o", "m">>
    [] s = "Billing <billing@x.com>" ->
         <<"B", "i", "l", "l", "i", "n", "g", " ", "<", "b", "i", "l", "l",
           "i", "n", "g", "@", "x", ".", "c", "o", "m", ">">>
    [] s = "hello" -> <<"h", "e", "l", "l", "o">>
    [] s = "team lunch at noon" ->
         <<"t", "e", "a", "m", " ", "l", "u", "n", "c", "h", " ", "a", "t",
           " ", "n", "o", "o", "n">>
    [] s = "invoice" -> <<"i", "n", "v", "o", "i", "c", "e">>
    [] s = " Invoice " -> <<" ", "I", "n", "v", "o", "i", "c", "e", " ">>
    [] s = "team lunch" -> <<"t", "e", "a", "m", " ", "l", "u", "n", "c", "h">>
    [] s = "_" -> <<"_">>
    [] s = " " -> <<" ">>
    [] s = "hr" -> <<"h", "r">>

lower(c) ==
  CASE c = "B" -> "b"
    [] c = "I" -> "i"
    [] c = "L" -> "l"
    [] c = "N" -> "n"
    [] c = "T" -> "t"
    [] OTHER -> c

AlphaNumerics ==
  {"0", "1", "a", "b", "c", "e", "g", "h", "i", "l", "m", "n", "o", "r", "s",
   "t", "u", "v", "x"}

\* LOWER(text)
LOWER(t) == [i \in 1..Len(t) |-> lower(t[i])]

\* String.prototype.trim on the blanks of the model.
RECURSIVE trimStart(_)
trimStart(t) == IF t # <<>> /\ Head(t) = " " THEN trimStart(Tail(t)) ELSE t

RECURSIVE trimEnd(_)
trimEnd(t) ==
  IF t # <<>> /\ t[Len(t)] = " " THEN trimEnd(SubSeq(t, 1, Len(t) - 1)) ELSE t

trim(t) == trimEnd(trimStart(t))

\* text LIKE pattern: % stands for any run of characters, _ for any one
\* character, every other character for itself (no text of the model holds
\* the escape character).
RECURSIVE LIKE(_, _)
LIKE(t, p) ==
  IF p = <<>> THEN t = <<>>
  ELSE IF Head(p) = "%"
    THEN LIKE(t, Tail(p)) \/ (t # <<>> /\ LIKE(Tail(t), p))
  ELSE /\ t # <<>>
       /\ Head(p) = "_" \/ Head(p) = Head(t)
       /\ LIKE(Tail(t), Tail(p))

\* `%${searchTerm}%`
likeSearch(term) == <<"%">> \o term \o <<"%">>

\* pg_trgm: the text is cut into words at the characters that are not
\* alphanumeric, each word gets two blanks in front and one behind, and the
\* trigrams are the runs of three characters of the padded words.
isWordChar(t, i) == i \in 1..Len(t) /\ t[i] \in AlphaNumerics

wordStarts(t) == {i \in 1..Len(t) : isWordChar(t, i) /\ ~isWordChar(t, i - 1)}

wordEnd(t, s) ==
  CHOOSE e \in s..Len(t) :
    /\ \A i \in s..e : isWordChar(t, i)
    /\ ~isWordChar(t, e + 1)

paddedWords(t) ==
  {<<" ", " ">> \o SubSeq(t, s, wordEnd(t, s)) \o <<" ">> : s \in wordStarts(t)}

trigrams(t) ==
  UNION {{SubSeq(w, i, i + 2) : i \in 1..(Len(w) - 2)} : w \in paddedWords(t)}

\* similarity(a, b) of pg_trgm as the fraction <<shared, all>> of the
\* distinct trigrams; 0 when a text has no trigram.
similarity(a, b) ==
  LET ta == trigrams(LOWER(a))
      tb == trigrams(LOWER(b))
  IN IF ta = {} \/ tb = {} THEN <<0, 1>>
     ELSE <<Cardinality(ta \cap tb), Cardinality(ta \cup tb)>>

\* Fractions <<n, d>> with d > 0.
Less(x, y) == x[1] * y[2] < y[1] * x[2]
Times(x, y) == <<x[1] * y[1], x[2] * y[2]>>
GREATEST(S) == CHOOSE x \in S : \A y \in S : ~Less(x, y)

(***************************************************************************)
(* EmailService.updateEmailStatus: the kanban column of a row              *)
(***************************************************************************)
\* The columns every owner has.
ColumnNames == {"Inbox", "Done"}

\* email.kanbanColumn?.name through the LEFT JOIN: NULL for a row without a
\* column.
columnName(columns, pk) ==
  IF \E p \in columns : p[1] = pk
    THEN (CHOOSE p \in columns : p[1] = pk)[2]
    ELSE Null

\* emailRepository.create({userId, gmailId, kanbanColumnId}): no search field
\* is set.
bareFields ==
  [subject |-> Null, senderName |-> Null, senderEmail |-> Null,
   snippet |-> Null, receivedAt |-> Null, bodyText |-> Null]

idleStatus ==
  [pc |-> "idle", owner |-> "u1", gmailId |-> 0, name |-> "", pk |-> NoRow,
   started |-> 0]

\* updateEmailStatus(u, g, name) up to the answer of its findOne; started
\* counts the calls (it bounds the model).
StatusFind(u, g, name) ==
  /\ statusCall.pc = "idle"
  /\ statusCall.started < MaxStatusCalls
  /\ statusCall' = [pc |-> "save", owner |-> u, gmailId |-> g, name |-> name,
                    pk |-> findOne(emailRows, u, g),
                    started |-> statusCall.started + 1]
  /\ UNCHANGED <<clock, debounceVars, indexVars, embedVars, localVars, padVars, primaryVars, semVars, loopVars,
                 columnOf, lexSearch, deleted>>

\* emailRepository.save(email): the row found gets the column, or a row of
\* the key alone is INSERTed; a rejected INSERT makes the call throw.
StatusSave ==
  /\ statusCall.pc = "save"
  /\ statusCall' = [idleStatus EXCEPT !.started = statusCall.started]
  /\ IF statusCall.pk # NoRow
       THEN /\ columnOf' = {p \in columnOf : p[1] # statusCall.pk}
                             \cup {<<statusCall.pk, statusCall.name>>}
            /\ UNCHANGED <<emailRows, nextEmailId>>
       ELSE IF uniqueViolation(emailRows, statusCall.owner, statusCall.gmailId)
         THEN UNCHANGED <<emailRows, nextEmailId, columnOf>>
         ELSE /\ emailRows' = emailRows \cup
                    {[id |-> nextEmailId, userId |-> statusCall.owner,
                      gmailId |-> statusCall.gmailId, fields |-> bareFields]}
              /\ nextEmailId' = nextEmailId + 1
              /\ columnOf' = columnOf \cup {<<nextEmailId, statusCall.name>>}
  /\ UNCHANGED <<clock, debounceVars, embedVars, localVars, padVars, primaryVars, semVars, loopVars,
                 indexCalls, nextCallId, indexLog, lexSearch, deleted>>

(***************************************************************************)
(* EmailService.deleteEmail                                                *)
(***************************************************************************)
\* What gmailService.deleteEmail can do: trash the message, or throw.
GmailOutcomes == {"ok", "throw"}

\* deleteEmail(u, g) awaits gmailService.deleteEmail(u, g, permanent) and
\* returns; deleted remembers, for a call that returned, how many saves of
\* the key the index had seen.
DeleteEmail(u, g, outcome) ==
  /\ deleted' = IF outcome = "ok"
                  THEN [deleted EXCEPT ![<<u, g>>] = indexLog[<<u, g>>].saved]
                  ELSE deleted
  /\ UNCHANGED <<clock, debounceVars, indexVars, embedVars, localVars, padVars, primaryVars, semVars, loopVars,
                 columnOf, statusCall, lexSearch>>

NotDeleted == 0 - 1

\* The keys whose message was deleted and not indexed again since, each
\* with the number of its saves.
deletedKeys ==
  {<<k, deleted[k]>> : k \in {x \in Keys : deleted[x] = indexLog[x].saved}}

(***************************************************************************)
(* SearchService.searchEmails                                              *)
(***************************************************************************)
NoFilters == [unreadOnly |-> FALSE, sender |-> "", status |-> ""]

\* The calls of the model: owner, query, page, limit, filters, sort.
search(u, q, page, limit, filters, sort) ==
  [owner |-> u, query |-> q, page |-> page, limit |-> limit,
   filters |-> filters, sort |-> sort]

DefaultLimit == 20

LexSearches ==
  {search("u1", "invoice", 1, DefaultLimit, NoFilters, "relevance"),
   search("u1", "team lunch", 1, DefaultLimit, NoFilters, "relevance"),
   search("u1", "_", 1, DefaultLimit, NoFilters, "relevance"),
   search("u1", " Invoice ", 2, 1,
          [NoFilters EXCEPT !.status = "Done"], "date_desc"),
   search("u2", " ", 1, 1,
          [NoFilters EXCEPT !.unreadOnly = TRUE, !.sender = "hr"], "date_asc")}

\* query && query.trim(): the search term, empty when there is none.
searchTerm(query) == trim(chars(query))

\* column LIKE pattern and similarity(column, term) on a column that may be
\* NULL: a NULL column makes the comparison NULL, which WHERE and CASE read
\* as not true and GREATEST ignores, as they do 0.
likeColumn(col, pattern) ==
  col # Null /\ LIKE(LOWER(chars(col)), LOWER(pattern))

similarityColumn(col, term) ==
  IF col = Null THEN <<0, 1>> ELSE similarity(LOWER(chars(col)), LOWER(term))

\* similarity(...) > 0.05
aboveThreshold(sim) == Less(<<5, 100>>, sim)

\* The fuzzy predicate of the WHERE clause (lines 315-324).
matchesTerm(f, term) ==
  \/ aboveThreshold(similarityColumn(f.subject, term))
  \/ aboveThreshold(similarityColumn(f.senderName, term))
  \/ aboveThreshold(similarityColumn(f.senderEmail, term))
  \/ likeColumn(f.subject, likeSearch(term))
  \/ likeColumn(f.senderName, likeSearch(term))
  \/ likeColumn(f.senderEmail, likeSearch(term))
  \/ likeColumn(f.snippet, likeSearch(term))

\* The WHERE clause of the query builder for a call.
whereClause(r, column, s) ==
  /\ r.userId = s.owner
  /\ \/ r.fields.subject # Null
     \/ r.fields.senderName # Null
     \/ r.fields.senderEmail # Null
  /\ s.filters.unreadOnly => column = "Inbox"
  /\ s.filters.sender # "" =>
       \/ likeColumn(r.fields.senderName, likeSearch(chars(s.filters.sender)))
       \/ likeColumn(r.fields.senderEmail, likeSearch(chars(s.filters.sender)))
  /\ s.filters.status # "" => column = s.filters.status
  /\ searchTerm(s.query) # <<>> => matchesTerm(r.fields, searchTerm(s.query))

selected(rows, columns, s) ==
  {r \in rows : whereClause(r, columnName(columns, r.id), s)}

\* relevance_score (lines 331-349), or 1 without a search term.
relevance_score(f, term) ==
  IF term = <<>> THEN <<1, 1>>
  ELSE GREATEST({
    IF likeColumn(f.subject, likeSearch(term)) THEN <<30, 10>> ELSE <<0, 1>>,
    IF likeColumn(f.senderName, likeSearch(term)) THEN <<25, 10>> ELSE <<0, 1>>,
    IF likeColumn(f.senderEmail, likeSearch(term)) THEN <<25, 10>> ELSE <<0, 1>>,
    IF likeColumn(f.snippet, likeSearch(term)) THEN <<15, 10>> ELSE <<0, 1>>,
    Times(similarityColumn(f.subject, term), <<20, 10>>),
    Times(similarityColumn(f.senderName, term), <<15, 10>>),
    Times(similarityColumn(f.senderEmail, term), <<15, 10>>)})

\* The order of receivedAt in the store: NULL sorts as the greatest value.
receivedOrder(receivedAt) ==
  CASE receivedAt = Null -> 2
    [] receivedAt = "2024-01-01T00:00:00.000Z" -> 1
    [] receivedAt = "2023-01-01T00:00:00.000Z" -> 0

\* a must come before b under the ORDER BY of the call; the query has no
\* ORDER BY when sort is relevance and there is no search term.
mustPrecede(a, b, s) ==
  LET term == searchTerm(s.query)
      sa == relevance_score(a.fields, term)
      sb == relevance_score(b.fields, term)
      da == receivedOrder(a.fields.receivedAt)
      db == receivedOrder(b.fields.receivedAt)
  IN CASE s.sort = "relevance" /\ term # <<>> ->
            Less(sb, sa) \/ (~Less(sa, sb) /\ da > db)
       [] s.sort = "date_desc" -> da > db
       [] s.sort = "date_asc" -> da < db
       [] OTHER -> FALSE

\* The orders in which the store can return the selected rows.
orderings(S, s) ==
  {seq \in [1..Cardinality(S) -> S] :
     /\ \A i, j \in 1..Cardinality(S) : i # j => seq[i] # seq[j]
     /\ \A i, j \in 1..Cardinality(S) : i < j => ~mustPrecede(seq[j], seq[i], s)}

\* .offset(offset).limit(limit)
pageOf(seq, s) ==
  LET offset == (s.page - 1) * s.limit
  IN SubSeq(seq, offset + 1, Min2(Len(seq), offset + s.limit))

\* x || ''
OrEmpty(x) == IF x = Null THEN "" ELSE x

\* The item built from an entity and its raw relevance_score (lines 369-378).
itemOf(r, columns, s) ==
  [id |-> r.gmailId,
   subject |-> OrEmpty(r.fields.subject),
   senderName |-> OrEmpty(r.fields.senderName),
   senderEmail |-> OrEmpty(r.fields.senderEmail),
   snippet |-> OrEmpty(r.fields.snippet),
   receivedAt |-> r.fields.receivedAt,
   status |-> IF columnName(columns, r.id) = Null THEN "Inbox"
              ELSE columnName(columns, r.id),
   score |-> relevance_score(r.fields, searchTerm(s.query))]

EmptyResult == [total |-> 0, items |-> <<>>]

\* What a query of the store can do: answer, or throw.
StoreOutcomes == {"ok", "throw"}

idleSearch ==
  [pc |-> "idle", call |-> search("u1", "", 1, 1, NoFilters, "relevance"),
   total |-> 0, result |-> EmptyResult, storeThrew |-> FALSE, afterDelete |-> {}]

\* A search whose catch block rethrows.
Rethrows(activation) ==
  [activation EXCEPT !.pc = "thrown", !.storeThrew = TRUE]

\* The catch block (lines 389-398): the error is logged and the empty result
\* returned; storeThrew remembers that a query of the call threw.
catchSearch(activation) ==
  [activation EXCEPT !.pc = "returned", !.result = EmptyResult,
                     !.storeThrew = TRUE]

\* searchEmails(...) up to its first await; afterDelete remembers the keys
\* whose deleteEmail had returned by then.
SearchStart(s) ==
  /\ lexSearch.pc \in {"idle", "returned", "thrown"}
  /\ lexSearch' = [idleSearch EXCEPT !.pc = "count", !.call = s,
                                     !.afterDelete = deletedKeys]
  /\ UNCHANGED <<clock, debounceVars, indexVars, embedVars, localVars, padVars, primaryVars, semVars, loopVars,
                 columnOf, statusCall, deleted>>

\* getCount() has answered or thrown; the catch block returns the empty
\* result.
SearchCount(outcome) ==
  /\ lexSearch.pc = "count"
  /\ lexSearch' =
       IF outcome = "throw"
         THEN catchSearch(lexSearch)
         ELSE [lexSearch EXCEPT !.pc = "page",
                 !.total = Cardinality(selected(emailRows, columnOf, lexSearch.call))]
  /\ UNCHANGED <<clock, debounceVars, indexVars, embedVars, localVars, padVars, primaryVars, semVars, loopVars,
                 columnOf, statusCall, deleted>>

\* getRawAndEntities() has answered or thrown; the call returns.
SearchPage(outcome) ==
  /\ lexSearch.pc = "page"
  /\ \E seq \in orderings(selected(emailRows, columnOf, lexSearch.call), lexSearch.call) :
       lexSearch' =
         IF outcome = "throw"
           THEN catchSearch(lexSearch)
           ELSE [lexSearch EXCEPT !.pc = "returned",
                   !.result =
                     [total |-> lexSearch.total,
                      items |-> [i \in 1..Len(pageOf(seq, lexSearch.call)) |->
                                   itemOf(pageOf(seq, lexSearch.call)[i],
                                          columnOf, lexSearch.call)]]]
  /\ UNCHANGED <<clock, debounceVars, indexVars, embedVars, localVars, padVars, primaryVars, semVars, loopVars,
                 columnOf, statusCall, deleted>>

InitLexical ==
  /\ columnOf = {}
  /\ statusCall = idleStatus
  /\ lexSearch = idleSearch
  /\ deleted = [k \in Keys |-> NotDeleted]

(***************************************************************************)
(* EmailService.reindexMailboxEmails and sendEmail                         *)
(***************************************************************************)
\* The caller of an index call that a request awaits.
PrimaryCaller == 0 - 1

idlePrimary == [pc |-> "idle", kind |-> "", owner |-> "u1"]

\* reindexMailboxEmails(u, ...) on a mailbox of one page, up to its
\* await of bulkIndexEmails(u, docs): the documents of the messages of the
\* page, with or without body text.
ReindexStart(u, emails) ==
  /\ primaryCall.pc # "indexing"
  /\ emails # {}
  /\ nextCallId <= MaxIndexCalls
  /\ LET docs == {mapToSearchDocument(d, gmail[d]) : d \in emails}
     IN /\ indexCalls' = indexCalls \cup {newCall("bulk", PrimaryCaller, u, docs)}
        /\ indexLog' = logStart(indexLog, u, docs)
  /\ nextCallId' = nextCallId + 1
  /\ primaryCall' = [pc |-> "indexing", kind |-> "reindexMailboxEmails", owner |-> u]
  /\ UNCHANGED <<clock, debounceVars, embedVars, localVars, padVars, lexVars, semVars, loopVars,
                 emailRows, nextEmailId>>

\* sendEmail(u, dto) once Gmail has sent the message as g, up to the await
\* of indexEmail inside indexEmailForSearch(u, g).
SendStart(u, g) ==
  /\ primaryCall.pc # "indexing"
  /\ nextCallId <= MaxIndexCalls
  /\ LET doc == mapToSearchDocument(g, gmail[g])
     IN /\ indexCalls' = indexCalls \cup {newCall("single", PrimaryCaller, u, {doc})}
        /\ indexLog' = logStart(indexLog, u, {doc})
  /\ nextCallId' = nextCallId + 1
  /\ primaryCall' = [pc |-> "indexing", kind |-> "sendEmail", owner |-> u]
  /\ UNCHANGED <<clock, debounceVars, embedVars, localVars, padVars, lexVars, semVars, loopVars,
                 emailRows, nextEmailId>>

\* What the request does with the outcome of the index call it awaited:
\* sendEmail catches and logs a rejection and returns the result of Gmail;
\* reindexMailboxEmails has no handler around bulkIndexEmails.
afterIndexing(kind, outcome) ==
  IF outcome = "failed" /\ kind = "reindexMailboxEmails" THEN "threw"
  ELSE "returned"

\* The index call has settled and the request resumes.
PrimaryResume ==
  /\ primaryCall.pc = "indexing"
  /\ \E c \in indexCalls :
       /\ c.caller = PrimaryCaller
       /\ c.pc \in {"done", "failed"}
       /\ indexCalls' = indexCalls \ {c}
       /\ primaryCall' = [primaryCall EXCEPT !.pc = afterIndexing(primaryCall.kind, c.pc)]
  /\ UNCHANGED <<clock, debounceVars, embedVars, localVars, padVars, lexVars, semVars, loopVars,
                 emailRows, nextEmailId, nextCallId, indexLog>>

InitPrimary == primaryCall = idlePrimary

(***************************************************************************)
(* SemanticSearchService over table email_vectors                          *)
(***************************************************************************)
\* What the requests of the section leave alone.
semFrame == <<clock, debounceVars, localVars, padVars, lexVars, primaryVars, loopVars>>
geminiFrame == <<provider, geminiModel, lastRequestTime, batch, cooldowns, cooldownCause>>

\* The width the configured provider produces and generateEmbedding
\* checks: 768 for Gemini, 384 for the local model.
LocalDimensions == 384

embeddingDimensions ==
  IF provider = "gemini" THEN EmbeddingDimensions ELSE LocalDimensions

\* The vector generateEmbedding(text) returns.
generatedEmbedding(text) == [of |-> text, dims |-> embeddingDimensions]

\* The width of the column email_vectors.embedding that both writers and
\* the search pad to.
CanonicalWidth == 768

\* A vector used as the provider returned it.
StoredAsProduced(v) == v

\* The padded vector of a provider's vector: padEmbedding(embedding, 768).
paddedVector(v) ==
  [of |-> v.of,
   dims |-> Len(padEmbedding([n \in 1..v.dims |-> 1], CanonicalWidth))]

\* A table email_vectors without the unique index on emailId.
NoVectorIndex(vectors, pk) == FALSE

\* @Index({ unique: true }) on emailId: an INSERT of an emailId that has a
\* row is rejected.
vectorIndexViolation(vectors, pk) == \E v \in vectors : v.emailId = pk

\* The UPDATE ("update") or the INSERT ("insert") of generateAndStoreEmbedding
\* on table email_vectors: one statement, which writes the embedding and
\* embedding_updated_at = NOW() or, when it throws, nothing.
writeVector(vectors, statement, pk, embedding, outcome) ==
  LET row == [emailId |-> pk, embedding |-> embedding, embeddingUpdatedAt |-> now]
  IN IF outcome = "throw" THEN vectors
     ELSE IF statement = "update"
       THEN {IF v.emailId = pk THEN row ELSE v : v \in vectors}
     ELSE IF vectorIndexViolation(vectors, pk) THEN vectors
     ELSE vectors \cup {row}

\* isPgvectorAvailable(): the extension is there, is not there, or the
\* query throws, which the method reports as not there.
PgvectorOutcomes == {"yes", "no", "throw"}

\* The rows of email_vectors of an owner that hold an embedding
\* (JOIN emails e ON ev."emailId" = e.id WHERE e."userId" = $1 AND
\* ev.embedding IS NOT NULL).
vectorsOf(rows, vectors, u) ==
  {v \in vectors :
     /\ v.embedding # NoVector
     /\ \E r \in rows : r.id = v.emailId /\ r.userId = u}

\* `${subject || ''} ${bodyText || ''}`.trim() is empty.
noTextForEmbedding(subject, bodyText) ==
  trim(chars(subject) \o <<" ">> \o chars(bodyText)) = <<>>

\* `${subject || ''} ${bodyText || ''}`.trim(): the parts of the model's
\* documents have no outer spaces, so the trim only removes the separator
\* beside an empty part.
textForEmbedding(subject, bodyText) ==
  IF subject = "" THEN bodyText
  ELSE IF bodyText = "" THEN subject
  ELSE subject \o " " \o bodyText

idleStore ==
  [pc |-> "idle", owner |-> "u1", gmailId |-> 0, subject |-> "", bodyText |-> "",
   pk |-> NoRow, embedding |-> NoVector]

\* generateEmbedding(text) begins for caller c: the start of EmbedStart.
embedFor(c, text) ==
  \E jitter \in JitterChoices :
    LET r == startCall(quotaState, text, jitter)
    IN /\ embedCalls' = [embedCalls EXCEPT ![c] = r.call]
       /\ quotaState' = r.state

\* generateAndStoreEmbedding(u, g, subject, bodyText) up to its first
\* await; without the provider it returns at once.
StoreStart(u, g, subject, bodyText) ==
  /\ provider = "gemini"
  /\ storeCall.pc = "idle"
  /\ quotaState' = isQuotaExceeded(quotaState).state
  /\ storeCall' = IF isAvailable(quotaState)
                    THEN [idleStore EXCEPT !.pc = "pgvector", !.owner = u,
                            !.gmailId = g, !.subject = subject,
                            !.bodyText = bodyText]
                    ELSE idleStore
  /\ UNCHANGED <<semFrame, indexVars, geminiFrame, embedCalls, vectorRows, semSearch>>

StorePgvector(outcome) ==
  /\ storeCall.pc = "pgvector"
  /\ storeCall' = IF outcome = "yes" THEN [storeCall EXCEPT !.pc = "findEmail"]
                  ELSE idleStore
  /\ UNCHANGED <<semFrame, indexVars, embedVars, vectorRows, semSearch>>

\* emailRepository.findOne has answered or thrown: without the row or
\* without text the call returns, else it calls generateEmbedding.
StoreFindEmail(outcome) ==
  /\ storeCall.pc = "findEmail"
  /\ LET pk == findOne(emailRows, storeCall.owner, storeCall.gmailId)
     IN IF \/ outcome = "throw"
           \/ pk = NoRow
           \/ noTextForEmbedding(storeCall.subject, storeCall.bodyText)
          THEN /\ storeCall' = idleStore
               /\ UNCHANGED <<embedCalls, quotaState>>
          ELSE /\ storeCall' = [storeCall EXCEPT !.pc = "embed", !.pk = pk]
               /\ embedFor(StoreCaller,
                           textForEmbedding(storeCall.subject, storeCall.bodyText))
  /\ UNCHANGED <<semFrame, indexVars, geminiFrame, vectorRows, semSearch>>

\* generateEmbedding has returned or thrown; the catch block swallows the
\* error.
StoreEmbedded ==
  /\ storeCall.pc = "embed"
  /\ embedCalls[StoreCaller].pc = "idle"
  /\ storeCall' =
       IF embedCalls[StoreCaller].result = "ok"
         THEN [storeCall EXCEPT !.pc = "findVector",
                 !.embedding = paddedVector(generatedEmbedding(
                    textForEmbedding(storeCall.subject, storeCall.bodyText)))]
         ELSE idleStore
  /\ embedCalls' = [embedCalls EXCEPT ![StoreCaller] = idleCall]
  /\ UNCHANGED <<semFrame, indexVars, geminiFrame, quotaState, vectorRows, semSearch>>

\* emailVectorRepository.findOne has answered or thrown.
StoreFindVector(outcome) ==
  /\ storeCall.pc = "findVector"
  /\ storeCall' =
       IF outcome = "throw" THEN idleStore
       ELSE IF \E v \in vectorRows : v.emailId = storeCall.pk
         THEN [storeCall EXCEPT !.pc = "update"]
         ELSE [storeCall EXCEPT !.pc = "insert"]
  /\ UNCHANGED <<semFrame, indexVars, embedVars, vectorRows, semSearch>>

\* The UPDATE or the INSERT has answered or thrown; an INSERT of an emailId
\* that has a row is rejected by the unique index.
StoreWrite(outcome) ==
  /\ storeCall.pc \in {"update", "insert"}
  /\ storeCall' = idleStore
  /\ vectorRows' = writeVector(vectorRows, storeCall.pc, storeCall.pk,
                               storeCall.embedding, outcome)
  /\ UNCHANGED <<semFrame, indexVars, embedVars, semSearch>>

\* The calls of searchSemantic in the model.
SemSearches ==
  {search("u1", "Team Lunch", 1, DefaultLimit, NoFilters, "relevance"),
   search("u1", "invoice", 1, 1, [NoFilters EXCEPT !.sender = "hr"], "relevance"),
   search("u1", " ", 1, DefaultLimit, NoFilters, "relevance")}

idleSemantic ==
  [pc |-> "idle", call |-> search("u1", "", 1, 1, NoFilters, "relevance"),
   rows |-> <<>>, result |-> EmptyResult, sawUnavailable |-> FALSE,
   sawNoRecords |-> FALSE, calledEmbed |-> FALSE, failed |-> FALSE,
   queryEmbedding |-> NoVector]

\* A search that returns the empty result.
returnEmpty(activation) == [activation EXCEPT !.pc = "returned", !.result = EmptyResult]

\* The catch block (lines 218-223); failed remembers that a step of the
\* call threw.
catchSemantic(activation) == [returnEmpty(activation) EXCEPT !.failed = TRUE]

\* A search that takes the provider for available whatever it reports.
AlwaysAvailable(q) == TRUE

\* if (!this.embeddingService.isAvailable()) return {total: 0, items: []}
providerAvailable(q) == isAvailable(q)

\* searchSemantic(...) up to its first await.
SemStart(s) ==
  /\ provider = "gemini"
  /\ semSearch.pc \in {"idle", "returned"}
  /\ quotaState' = isQuotaExceeded(quotaState).state
  /\ semSearch' =
       IF providerAvailable(quotaState)
         THEN [idleSemantic EXCEPT !.pc = "pgvector", !.call = s,
                 !.sawUnavailable = ~isAvailable(quotaState)]
         ELSE returnEmpty([idleSemantic EXCEPT !.call = s,
                             !.sawUnavailable = ~isAvailable(quotaState)])
  /\ UNCHANGED <<semFrame, indexVars, geminiFrame, embedCalls, vectorRows, storeCall>>

\* isPgvectorAvailable() has answered; then the test of the query.
SemPgvector(outcome) ==
  /\ semSearch.pc = "pgvector"
  /\ semSearch' =
       IF outcome # "yes" \/ searchTerm(semSearch.call.query) = <<>>
         THEN returnEmpty(semSearch)
         ELSE [semSearch EXCEPT !.pc = "records"]
  /\ UNCHANGED <<semFrame, indexVars, embedVars, vectorRows, storeCall>>

\* if (emailsWithEmbeddings === 0) return {total: 0, items: []}
noEmbeddings(n) == n = 0

\* The count of the owner's embeddings has answered or thrown: without
\* embeddings the search returns, else it calls generateEmbedding.
SemRecords(outcome) ==
  /\ provider = "gemini"
  /\ semSearch.pc = "records"
  /\ LET n == Cardinality(vectorsOf(emailRows, vectorRows, semSearch.call.owner))
     IN IF outcome = "throw"
          THEN /\ semSearch' = catchSemantic(semSearch)
               /\ UNCHANGED <<embedCalls, quotaState>>
        ELSE IF noEmbeddings(n)
          THEN /\ semSearch' = returnEmpty([semSearch EXCEPT !.sawNoRecords = (n = 0)])
               /\ UNCHANGED <<embedCalls, quotaState>>
        ELSE /\ semSearch' = [semSearch EXCEPT !.pc = "embed", !.calledEmbed = TRUE,
                                               !.sawNoRecords = (n = 0)]
             /\ embedFor(SemCaller, semSearch.call.query)
  /\ UNCHANGED <<semFrame, indexVars, geminiFrame, vectorRows, storeCall>>

\* generateEmbedding has returned or thrown.
SemEmbedded ==
  /\ provider = "gemini"
  /\ semSearch.pc = "embed"
  /\ embedCalls[SemCaller].pc = "idle"
  /\ semSearch' = IF embedCalls[SemCaller].result = "ok"
                    THEN [semSearch EXCEPT !.pc = "vectors",
                            !.queryEmbedding =
                               paddedVector(generatedEmbedding(semSearch.call.query))]
                    ELSE catchSemantic(semSearch)
  /\ embedCalls' = [embedCalls EXCEPT ![SemCaller] = idleCall]
  /\ UNCHANGED <<semFrame, indexVars, geminiFrame, quotaState, vectorRows, storeCall>>

\* A vector query that is not restricted to the owner.
AnyOwner(r, column, s) ==
  /\ \E v \in vectorRows : v.emailId = r.id /\ v.embedding # NoVector
  /\ s.filters.unreadOnly => column = "Inbox"
  /\ s.filters.sender # "" =>
       \/ likeColumn(r.fields.senderName, likeSearch(chars(s.filters.sender)))
       \/ likeColumn(r.fields.senderEmail, likeSearch(chars(s.filters.sender)))
  /\ s.filters.status # "" => column = s.filters.status

\* The WHERE clause of the vector query and of the count query.
semanticWhere(r, column, s) ==
  /\ r.userId = s.owner
  /\ \E v \in vectorRows : v.emailId = r.id /\ v.embedding # NoVector
  /\ s.filters.unreadOnly => column = "Inbox"
  /\ s.filters.sender # "" =>
       \/ likeColumn(r.fields.senderName, likeSearch(chars(s.filters.sender)))
       \/ likeColumn(r.fields.senderEmail, likeSearch(chars(s.filters.sender)))
  /\ s.filters.status # "" => column = s.filters.status

semanticSelected(s) ==
  {r \in emailRows : semanticWhere(r, columnName(columnOf, r.id), s)}

\* ev.embedding <=> $2 between the vectors of the model: 0 between the
\* embeddings of the same text, 1 between others.
cosineDistance(a, b) == IF a.of = b.of THEN 0 ELSE 1

embeddingOf(r) == (CHOOSE v \in vectorRows : v.emailId = r.id).embedding

\* ORDER BY ev.embedding <=> $2
semanticOrderings(S, q) ==
  {seq \in [1..Cardinality(S) -> S] :
     /\ \A i, j \in 1..Cardinality(S) : i # j => seq[i] # seq[j]
     /\ \A i, j \in 1..Cardinality(S) :
          i < j => cosineDistance(embeddingOf(seq[i]), q)
                     <= cosineDistance(embeddingOf(seq[j]), q)}

\* The item of a row of the vector query (lines 199-211), with the score
\* 1 - distance.
semanticItem(r, q) ==
  [id |-> r.gmailId,
   subject |-> OrEmpty(r.fields.subject),
   senderName |-> OrEmpty(r.fields.senderName),
   senderEmail |-> OrEmpty(r.fields.senderEmail),
   snippet |-> OrEmpty(r.fields.snippet),
   receivedAt |-> r.fields.receivedAt,
   status |-> IF columnName(columnOf, r.id) = Null THEN "Inbox"
              ELSE columnName(columnOf, r.id),
   score |-> <<1 - cosineDistance(embeddingOf(r), q), 1>>]

\* The vector query has answered or thrown.
SemVectors(outcome) ==
  /\ semSearch.pc = "vectors"
  /\ LET s == semSearch.call
         q == semSearch.queryEmbedding
     IN \E seq \in semanticOrderings(semanticSelected(s), q) :
          semSearch' =
            IF outcome = "throw" THEN catchSemantic(semSearch)
            ELSE [semSearch EXCEPT !.pc = "total",
                    !.rows = [i \in 1..Len(pageOf(seq, s)) |->
                                semanticItem(pageOf(seq, s)[i], q)]]
  /\ UNCHANGED <<semFrame, indexVars, embedVars, vectorRows, storeCall>>

\* The count query has answered or thrown; the call returns.
SemTotal(outcome) ==
  /\ semSearch.pc = "total"
  /\ semSearch' =
       IF outcome = "throw" THEN catchSemantic(semSearch)
       ELSE [semSearch EXCEPT !.pc = "returned",
               !.result = [total |-> Cardinality(semanticSelected(semSearch.call)),
                           items |-> semSearch.rows]]
  /\ UNCHANGED <<semFrame, indexVars, embedVars, vectorRows, storeCall>>

InitSemantic ==
  /\ vectorRows = {}
  /\ storeCall = idleStore
  /\ semSearch = idleSemantic

(***************************************************************************)
(* SearchService.bulkIndexEmails after the save: the background loop       *)
(***************************************************************************)
\* isEmbeddingServiceAvailable(): EmbeddingService.isAvailable() of the
\* configured provider, and the quota fields after the call.
isEmbeddingServiceAvailable ==
  IF provider = "gemini" THEN isAvailable(quotaState) ELSE localModel

afterIsAvailable ==
  IF provider = "gemini" THEN isQuotaExceeded(quotaState).state ELSE quotaState

\* The loops the model follows at a time, each with its own caller of
\* generateEmbedding.
LoopIds == Callers

idleLoop ==
  [pc |-> "idle", owner |-> "u1", docs |-> <<>>, i |-> 0, pk |-> NoRow,
   embedding |-> NoVector]

\* The head of the for loop with index loop.i (lines 197-214): past the
\* last document, or with the service unavailable, the loop ends; else
\* generateAndStoreEmbedding starts and runs to its first await.
loopTop(loop) ==
  IF loop.i > Len(loop.docs) \/ ~isEmbeddingServiceAvailable THEN idleLoop
  ELSE [loop EXCEPT !.pc = "pgvector", !.pk = NoRow, !.embedding = NoVector]

quotaAtTop(loop) == IF loop.i > Len(loop.docs) THEN quotaState ELSE afterIsAvailable

\* generateAndStoreEmbedding has returned (it never throws): the loop goes
\* on with the next document.
advance(j) ==
  LET next == [embedLoops[j] EXCEPT !.i = @ + 1]
  IN /\ embedLoops' = [embedLoops EXCEPT ![j] = loopTop(next)]
     /\ quotaState' = quotaAtTop(next)

\* emailRepository.save(...) has answered; a rejection is rethrown by the
\* catch block. After the save of bulkIndexEmails the call goes on to look
\* for embeddings to generate when the embedding service is available.
IndexSave(c) ==
  /\ c.pc = "save"
  /\ LET saved == saveEntities(emailRows, c.owner, c.entities)
     IN IF ~saved.ok
          THEN /\ indexCalls' = settle(indexCalls, c, "failed")
               /\ UNCHANGED <<emailRows, nextEmailId, indexLog, quotaState>>
          ELSE /\ emailRows' = saved.rows
               /\ nextEmailId' = nextEmailId
                    + Cardinality({e \in c.entities : e.pk = NoRow})
               /\ indexLog' = logSaved(indexLog, c.owner, docsOf(c), c.kind)
               /\ IF c.kind = "bulk"
                    THEN /\ quotaState' = afterIsAvailable
                         /\ indexCalls' =
                              IF isEmbeddingServiceAvailable
                                THEN (indexCalls \ {c}) \cup {[c EXCEPT !.pc = "findSaved"]}
                                ELSE settle(indexCalls, c, "done")
                    ELSE /\ indexCalls' = settle(indexCalls, c, "done")
                         /\ UNCHANGED quotaState
  /\ UNCHANGED <<clock, auxVars, localVars, debounceVars, nextCallId, geminiFrame, embedCalls>>

\* emailRepository.find of the saved emails has answered (emailIdMap), or
\* thrown, which the catch block rethrows.
BulkFindSaved(c, outcome) ==
  /\ c.pc = "findSaved"
  /\ indexCalls' =
       IF outcome = "throw" THEN settle(indexCalls, c, "failed")
       ELSE (indexCalls \ {c}) \cup
              {[c EXCEPT !.pc = "findVectors",
                         !.entities = {[doc |-> e.doc,
                                        pk |-> findOne(emailRows, c.owner, e.doc.id)]
                                       : e \in c.entities}]}
  /\ UNCHANGED <<clock, auxVars, localVars, embedVars, debounceVars, emailRows, nextEmailId,
                 nextCallId, indexLog>>

\* The documents of the call that need an embedding, in the order of docs:
\* those with body text, a saved row and no row in existingVectors.
needingEmbeddings(c) ==
  LET needing == {e \in c.entities :
                    /\ e.doc.bodyText # ""
                    /\ e.pk # NoRow
                    /\ ~\E v \in vectorRows : v.emailId = e.pk}
      order == insertOrder(needing)
  IN [n \in 1..Len(order) |-> order[n].doc]

freeLoops == {j \in LoopIds : embedLoops[j].pc = "idle" /\ embedCalls[j].pc = "idle"}

\* emailVectorRepository.find has answered or thrown. With documents that
\* need embeddings the background loop starts, and bulkIndexEmails returns
\* without awaiting it.
BulkFindVectors(c, outcome) ==
  /\ c.pc = "findVectors"
  /\ IF outcome = "throw"
       THEN /\ indexCalls' = settle(indexCalls, c, "failed")
            /\ UNCHANGED <<embedLoops, quotaState>>
     ELSE IF Len(needingEmbeddings(c)) = 0
       THEN /\ indexCalls' = settle(indexCalls, c, "done")
            /\ UNCHANGED <<embedLoops, quotaState>>
     ELSE /\ freeLoops # {}
          /\ LET j == CHOOSE x \in freeLoops : \A y \in freeLoops : x <= y
                 loop == [idleLoop EXCEPT !.owner = c.owner,
                                          !.docs = needingEmbeddings(c), !.i = 1]
             IN /\ embedLoops' = [embedLoops EXCEPT ![j] = loopTop(loop)]
                /\ quotaState' = quotaAtTop(loop)
          /\ indexCalls' = settle(indexCalls, c, "done")
  /\ UNCHANGED <<clock, debounceVars, localVars, padVars, lexVars, primaryVars, semVars,
                 emailRows, nextEmailId, nextCallId, indexLog, geminiFrame, embedCalls>>

\* What the steps of a loop leave alone besides the provider.
loopFrame == <<clock, debounceVars, localVars, padVars, lexVars, primaryVars, indexVars,
               storeCall, semSearch>>

\* isPgvectorAvailable() of generateAndStoreEmbedding has answered.
LoopPgvector(j, outcome) ==
  /\ embedLoops[j].pc = "pgvector"
  /\ IF outcome = "yes"
       THEN /\ embedLoops' = [embedLoops EXCEPT ![j].pc = "findEmail"]
            /\ UNCHANGED quotaState
       ELSE advance(j)
  /\ UNCHANGED <<loopFrame, geminiFrame, embedCalls, vectorRows>>

\* emailRepository.findOne has answered or thrown; with a row and a text
\* the call asks the provider: generateEmbedding(textForEmbedding).
LoopFindEmail(j, outcome) ==
  /\ provider = "gemini"
  /\ embedLoops[j].pc = "findEmail"
  /\ LET loop == embedLoops[j]
         doc == loop.docs[loop.i]
         pk == findOne(emailRows, loop.owner, doc.id)
     IN IF outcome = "throw" \/ pk = NoRow \/ noTextForEmbedding(doc.subject, doc.bodyText)
          THEN advance(j) /\ UNCHANGED embedCalls
          ELSE /\ embedLoops' = [embedLoops EXCEPT ![j].pc = "embed", ![j].pk = pk]
               /\ embedFor(j, textForEmbedding(doc.subject, doc.bodyText))
  /\ UNCHANGED <<loopFrame, geminiFrame, vectorRows>>

\* generateEmbedding has returned or thrown; the catch block of
\* generateAndStoreEmbedding swallows the error.
LoopEmbedded(j) ==
  /\ provider = "gemini"
  /\ embedLoops[j].pc = "embed"
  /\ embedCalls[j].pc = "idle"
  /\ LET loop == embedLoops[j]
         doc == loop.docs[loop.i]
     IN IF embedCalls[j].result = "ok"
          THEN /\ embedLoops' = [embedLoops EXCEPT
                    ![j].pc = "findVector",
                    ![j].embedding =
                       paddedVector(generatedEmbedding(
                         textForEmbedding(doc.subject, doc.bodyText)))]
               /\ UNCHANGED quotaState
          ELSE advance(j)
  /\ embedCalls' = [embedCalls EXCEPT ![j] = idleCall]
  /\ UNCHANGED <<loopFrame, geminiFrame, vectorRows>>

\* emailVectorRepository.findOne has answered or thrown.
LoopFindVector(j, outcome) ==
  /\ embedLoops[j].pc = "findVector"
  /\ IF outcome = "throw" THEN advance(j)
     ELSE /\ embedLoops' = [embedLoops EXCEPT ![j].pc =
               IF \E v \in vectorRows : v.emailId = embedLoops[j].pk
                 THEN "update" ELSE "insert"]
          /\ UNCHANGED quotaState
  /\ UNCHANGED <<loopFrame, geminiFrame, embedCalls, vectorRows>>

\* The UPDATE or the INSERT has answered or thrown.
LoopWrite(j, outcome) ==
  /\ embedLoops[j].pc \in {"update", "insert"}
  /\ vectorRows' = writeVector(vectorRows, embedLoops[j].pc, embedLoops[j].pk,
                               embedLoops[j].embedding, outcome)
  /\ advance(j)
  /\ UNCHANGED <<loopFrame, geminiFrame, embedCalls>>

InitLoops == embedLoops = [j \in LoopIds |-> idleLoop]

(***************************************************************************)
(* The local provider behind generateAndStoreEmbedding and searchSemantic   *)
(***************************************************************************)
\* What a step of these calls leaves alone when it starts or ends a call of
\* generateEmbeddingLocal.
localFrame == <<clock, debounceVars, padVars, lexVars, primaryVars, indexVars,
                embedVars, booted, localModel, storeCall>>

\* LoopFindEmail with the local provider.
LoopFindEmailLocal(j, outcome) ==
  /\ provider = "local"
  /\ embedLoops[j].pc = "findEmail"
  /\ LET loop == embedLoops[j]
         doc == loop.docs[loop.i]
         pk == findOne(emailRows, loop.owner, doc.id)
     IN IF outcome = "throw" \/ pk = NoRow \/ noTextForEmbedding(doc.subject, doc.bodyText)
          THEN /\ embedLoops' = [embedLoops EXCEPT
                    ![j] = loopTop([embedLoops[j] EXCEPT !.i = @ + 1])]
               /\ UNCHANGED <<localCalls, isLocalModelLoading, loads>>
          ELSE /\ embedLoops' = [embedLoops EXCEPT ![j].pc = "embed", ![j].pk = pk]
               /\ beginLocal(j, "embed")
  /\ UNCHANGED <<localFrame, vectorRows, semSearch>>

\* LoopEmbedded with the local provider.
LoopEmbeddedLocal(j) ==
  /\ provider = "local"
  /\ embedLoops[j].pc = "embed"
  /\ localCalls[j].pc = "idle"
  /\ LET loop == embedLoops[j]
         doc == loop.docs[loop.i]
     IN embedLoops' =
          IF localCalls[j].result = "ok"
            THEN [embedLoops EXCEPT
                    ![j].pc = "findVector",
                    ![j].embedding =
                       paddedVector(generatedEmbedding(
                         textForEmbedding(doc.subject, doc.bodyText)))]
            ELSE [embedLoops EXCEPT
                    ![j] = loopTop([embedLoops[j] EXCEPT !.i = @ + 1])]
  /\ localCalls' = [localCalls EXCEPT ![j] = idleLocal]
  /\ UNCHANGED <<localFrame, isLocalModelLoading, loads, vectorRows, semSearch>>

\* SemStart with the local provider: isAvailable() is localModel !== null.
SemStartLocal(s) ==
  /\ provider = "local"
  /\ booted = "ready"
  /\ semSearch.pc \in {"idle", "returned"}
  /\ semSearch' =
       IF localModel
         THEN [idleSemantic EXCEPT !.pc = "pgvector", !.call = s]
         ELSE returnEmpty([idleSemantic EXCEPT !.call = s, !.sawUnavailable = TRUE])
  /\ UNCHANGED <<localFrame, localCalls, isLocalModelLoading, loads, vectorRows,
                 embedLoops>>

\* SemRecords with the local provider.
SemRecordsLocal(outcome) ==
  /\ provider = "local"
  /\ semSearch.pc = "records"
  /\ LET n == Cardinality(vectorsOf(emailRows, vectorRows, semSearch.call.owner))
     IN IF outcome = "throw"
          THEN /\ semSearch' = catchSemantic(semSearch)
               /\ UNCHANGED <<localCalls, isLocalModelLoading, loads>>
        ELSE IF noEmbeddings(n)
          THEN /\ semSearch' = returnEmpty([semSearch EXCEPT !.sawNoRecords = (n = 0)])
               /\ UNCHANGED <<localCalls, isLocalModelLoading, loads>>
        ELSE /\ semSearch' = [semSearch EXCEPT !.pc = "embed", !.calledEmbed = TRUE,
                                               !.sawNoRecords = (n = 0)]
             /\ beginLocal(SemCaller, "embed")
  /\ UNCHANGED <<localFrame, vectorRows, embedLoops>>

\* SemEmbedded with the local provider.
SemEmbeddedLocal ==
  /\ provider = "local"
  /\ semSearch.pc = "embed"
  /\ localCalls[SemCaller].pc = "idle"
  /\ semSearch' = IF localCalls[SemCaller].result = "ok"
                    THEN [semSearch EXCEPT !.pc = "vectors",
                            !.queryEmbedding =
                               paddedVector(generatedEmbedding(semSearch.call.query))]
                    ELSE catchSemantic(semSearch)
  /\ localCalls' = [localCalls EXCEPT ![SemCaller] = idleLocal]
  /\ UNCHANGED <<localFrame, isLocalModelLoading, loads, vectorRows, embedLoops>>

(***************************************************************************)
(* EmailService.scheduleBulkEmbeddingGeneration                            *)
(***************************************************************************)
\* clearTimeout(h): an armed timer is cancelled, a fired one is left alone.
clearTimeout(ts, h) == {t \in ts : ~(t.id = h /\ t.state = "armed")}

\* The emails a new timer's callback will process, given the emails of this
\* call and those of the timer (if any) the call has just cancelled.
closureEmails(emails, cancelled) == emails

\* The map once a callback has reached its finally block.
afterCallback(jobs, u, id) == [jobs EXCEPT ![u] = NoTimer]

\* History only: a debounce window of an owner lasts while a timer of that
\* owner is armed.  wid names the window (its first timer), window is the
\* union of the emails of its calls and enqs their number.
armedOf(u) == {t \in timers : t.owner = u /\ t.state = "armed"}

Min(S) == CHOOSE x \in S : \A y \in S : x <= y
Max(S) == CHOOSE x \in S : \A y \in S : x >= y

\* getEmailsByMailbox -> scheduleBulkEmbeddingGeneration(u, emails)
Enqueue(u, emails) ==
  /\ nextTimerId <= MaxTimers
  /\ emails # {}
  /\ LET existingTimeout == pendingEmbeddingJobs[u]
         cancelled == {t \in timers : t.id = existingTimeout /\ t.state = "armed"}
         open == armedOf(u)
         new == [id |-> nextTimerId, owner |-> u,
                 emails |-> closureEmails(emails,
                              UNION {t.emails : t \in cancelled}),
                 fireAt |-> now + DebounceMs, state |-> "armed",
                 wid |-> IF open = {} THEN nextTimerId
                         ELSE Min({t.wid : t \in open}),
                 window |-> emails \cup UNION {t.window : t \in open},
                 enqs |-> IF open = {} THEN 1
                          ELSE 1 + Max({t.enqs : t \in open})]
     IN /\ timers' = (IF existingTimeout # NoTimer
                        THEN clearTimeout(timers, existingTimeout)
                        ELSE timers) \cup {new}
        /\ pendingEmbeddingJobs' = [pendingEmbeddingJobs EXCEPT ![u] = nextTimerId]
        /\ nextTimerId' = nextTimerId + 1
  /\ UNCHANGED <<clock, auxVars, localVars, embedVars, gmail, windowRuns, indexVars>>

\* The timer callback up to its first await: with no document left after
\* the filter it runs to its finally block at once, else it calls
\* bulkIndexEmails and awaits it.
Fire(t) ==
  /\ t.state = "armed"
  /\ now >= t.fireAt
  /\ LET docs == docsWithBody(t.emails)
     IN IF docs = {}
          THEN /\ timers' = timers \ {t}
               /\ pendingEmbeddingJobs' =
                    afterCallback(pendingEmbeddingJobs, t.owner, t.id)
               /\ UNCHANGED <<windowRuns, indexVars>>
          ELSE /\ timers' = (timers \ {t}) \cup {[t EXCEPT !.state = "running"]}
               /\ windowRuns' = [windowRuns EXCEPT ![t.wid] = @ + 1]
               /\ indexCalls' = indexCalls \cup {newCall("bulk", t.id, t.owner, docs)}
               /\ nextCallId' = nextCallId + 1
               /\ indexLog' = logStart(indexLog, t.owner, docs)
               /\ UNCHANGED <<pendingEmbeddingJobs, emailRows, nextEmailId>>
  /\ UNCHANGED <<clock, auxVars, localVars, embedVars, gmail, nextTimerId>>

\* bulkIndexEmails has settled (resolved, or rejected and caught): finally.
CallbackDone(t) ==
  /\ t.state = "running"
  /\ \E c \in indexCalls :
       /\ c.caller = t.id
       /\ c.pc \in {"done", "failed"}
       /\ indexCalls' = indexCalls \ {c}
  /\ timers' = timers \ {t}
  /\ pendingEmbeddingJobs' = afterCallback(pendingEmbeddingJobs, t.owner, t.id)
  /\ UNCHANGED <<clock, auxVars, localVars, embedVars, gmail, nextTimerId, windowRuns,
                 emailRows, nextEmailId, nextCallId, indexLog>>

\* The times at which a pending timer becomes due.
Deadlines ==
  {t.fireAt : t \in {x \in timers : x.state = "armed"}}
  \cup {embedCalls[c].wakeAt :
          c \in {x \in Callers : embedCalls[x].pc \in {"delay", "jitter", "backoff"}}}
  \cup (IF quotaState.quotaExceeded THEN {quotaState.quotaExceededUntil} ELSE {})
  \cup {localCalls[c].wakeAt : c \in {x \in Callers : localCalls[x].pc = "poll"}}

\* Time passes: by one step, or up to the next time a timer is due.
Tick(step, maxTicks) ==
  /\ ticks < maxTicks
  /\ \E t \in {now + step} \cup {d \in Deadlines : d > now} : now' = t
  /\ ticks' = ticks + 1
  /\ UNCHANGED <<debounceVars, indexVars, embedVars, localVars, auxVars>>

InitDebounce ==
  /\ pendingEmbeddingJobs = [u \in Owners |-> NoTimer]
  /\ timers = {}
  /\ nextTimerId = 1
  /\ windowRuns = [w \in 1..MaxTimers |-> 0]

\* The state after construction with the default provider, whose model is
\* not loaded: the embedding service is unavailable and bulkIndexEmails ends
\* with its save. Gmail holds any of the details per message.
Init ==
  /\ now = StartTime
  /\ ticks = 0
  /\ gmail \in [DocIds -> Details]
  /\ InitDebounce
  /\ InitIndex
  /\ InitGemini("local")
  /\ InitLocal
  /\ InitPad
  /\ InitLexical
  /\ InitPrimary
  /\ InitSemantic
  /\ InitLoops

\* The same with one given mailbox, for the parts that never read Gmail,
\* and the configured provider p.
InitWith(p) ==
  /\ now = StartTime
  /\ ticks = 0
  /\ gmail = [d \in DocIds |-> LunchDetail]
  /\ InitDebounce
  /\ InitIndex
  /\ InitGemini(p)
  /\ InitLocal
  /\ InitPad
  /\ InitLexical
  /\ InitPrimary
  /\ InitSemantic
  /\ InitLoops

InitOneMailbox == InitWith("gemini")
InitLocalProvider == InitWith("local")

NextDebounce ==
  \/ \E u \in Owners, emails \in SUBSET DocIds : Enqueue(u, emails)
  \/ \E t \in timers : Fire(t)
  \/ \E t \in timers : CallbackDone(t)
  \/ \E c \in indexCalls : IndexFind(c)
  \/ \E c \in indexCalls : IndexSave(c)
  \/ Tick(DebounceStep, MaxDebounceTicks)

SpecDebounce == Init /\ [][NextDebounce]_vars

NextIndex ==
  \/ \E u \in Owners, doc \in InputDocs : IndexEmailStart(u, doc)
  \/ \E u \in Owners, docs \in SUBSET InputDocs : BulkIndexStart(u, docs)
  \/ \E c \in indexCalls : IndexFind(c)
  \/ \E c \in indexCalls : IndexSave(c)

SpecIndex == InitLocalProvider /\ [][NextIndex]_vars

BatchTexts == UNION {[1..n -> Texts] : n \in 1..NumCallers}

\* The remote provider serving the callers cs.
NextGemini(cs) ==
  \/ \E c \in cs, text \in Texts : EmbedStart(c, text)
  \/ \E c \in cs : DelayElapsed(c)
  \/ \E c \in cs : Send(c)
  \/ \E c \in cs, outcome \in ProviderOutcomes : Respond(c, outcome)
  \/ \E c \in cs : BackoffElapsed(c)
  \/ IsAvailable

\* The quota governor over hours, with the requests of QuotaCallers.
QuotaCallers == 1..NumQuotaCallers

NextQuota ==
  \/ NextGemini(QuotaCallers)
  \/ Tick(QuotaStep, MaxQuotaTicks)

SpecQuota == InitOneMailbox /\ [][NextQuota]_vars

\* The rate gate and batches over milliseconds.
NextRate ==
  \/ NextGemini(Callers)
  \/ \E texts \in BatchTexts : BatchStart(texts)
  \/ BatchCollect
  \/ Tick(RateStep, MaxRateTicks)

SpecRate == InitOneMailbox /\ [][NextRate]_vars

\* Calls of generateEmbedding with either provider, followed to their end:
\* time passes from one pending timer to the next, calls begin during the
\* first MaxLiveStartTick passages of time or before, and every timer callback, every
\* answer of the provider and every inference is taken in the end.  Nothing
\* makes a load of the local model end.
MaxLiveStartTick == 0
MaxLiveTicks == MaxLiveStartTick + MaxPollAttempts + 1

LiveTick ==
  /\ ticks < MaxLiveTicks
  /\ {d \in Deadlines : d > now} # {}
  /\ now' = Min({d \in Deadlines : d > now})
  /\ ticks' = ticks + 1
  /\ UNCHANGED <<debounceVars, indexVars, embedVars, localVars, auxVars>>

InitLive == \E p \in {"gemini", "local"} : InitWith(p)

OwnLoadFinish(c) ==
  \E l \in loads, outcome \in {"ok", "failed"} : l.owner = c /\ LoadFinish(l, outcome)

\* The two callers whose calls are followed.
LiveCallers == {SemCaller, StoreCaller}

NextLive ==
  \/ \E c \in LiveCallers : ticks <= MaxLiveStartTick /\ EmbedStart(c, "a")
  \/ \E c \in LiveCallers : DelayElapsed(c)
  \/ \E c \in LiveCallers : Send(c)
  \/ \E c \in LiveCallers, outcome \in ProviderOutcomes : Respond(c, outcome)
  \/ \E c \in LiveCallers : BackoffElapsed(c)
  \/ OnModuleInit
  \/ \E c \in LiveCallers : ticks <= MaxLiveStartTick /\ LocalStart(c, "embed")
  \/ \E c \in LiveCallers : PollWake(c)
  \/ \E l \in loads, outcome \in {"ok", "failed"} : LoadFinish(l, outcome)
  \/ \E c \in LiveCallers, outcome \in {"ok", "Error"} : Infer(c, outcome)
  \/ LiveTick

LiveFairness ==
  /\ WF_vars(LiveTick)
  /\ \A c \in LiveCallers :
       /\ WF_vars(DelayElapsed(c))
       /\ WF_vars(Send(c))
       /\ WF_vars(\E outcome \in ProviderOutcomes : Respond(c, outcome))
       /\ WF_vars(BackoffElapsed(c))
       /\ WF_vars(PollWake(c))
       /\ WF_vars(\E outcome \in {"ok", "Error"} : Infer(c, outcome))

SpecLive == InitLive /\ [][NextLive]_vars /\ LiveFairness

\* The local provider: start-up, requests, loads.
NextLocal ==
  \/ OnModuleInit
  \/ \E c \in Callers, kind \in {"embed", "batch"} : LocalStart(c, kind)
  \/ \E c \in Callers : PollWake(c)
  \/ \E l \in loads, outcome \in {"ok", "failed"} : LoadFinish(l, outcome)
  \/ \E c \in Callers, outcome \in {"ok", "Error"} : Infer(c, outcome)
  \/ Tick(LocalStep, MaxLocalTicks)

SpecLocal == InitLocalProvider /\ [][NextLocal]_vars

\* The dimension adapter on every vector and width within the bounds.
NextPad == \E v \in PadVectors, w \in PadWidths : Pad(v, w)

SpecPad == InitOneMailbox /\ [][NextPad]_vars

\* The lexical search of owner u1 beside the index calls and the status
\* updates that change what it reads.  indexEmailForSearch(u, g) indexes the
\* document of the message that Gmail holds under g; owner u2 indexes one
\* message.
LexMailboxes ==
  {[d \in DocIds |-> IF d = 1 THEN InvoiceDetail ELSE LunchDetail],
   [d \in DocIds |-> IF d = 1 THEN NotesDetail ELSE ReorderDetail]}

InitSearch ==
  /\ now = StartTime
  /\ ticks = 0
  /\ gmail \in LexMailboxes
  /\ InitDebounce
  /\ InitIndex
  /\ InitGemini("gemini")
  /\ InitLocal
  /\ InitPad
  /\ InitLexical
  /\ InitPrimary
  /\ InitSemantic
  /\ InitLoops

LexIndexCalls == {<<"u1", d>> : d \in DocIds} \cup {<<"u2", 1>>}

NextLexical ==
  \/ \E call \in LexIndexCalls :
       IndexEmailStart(call[1], mapToSearchDocument(call[2], gmail[call[2]]))
  \/ \E c \in indexCalls : IndexFind(c)
  \/ \E c \in indexCalls : IndexSave(c)
  \/ \E g \in DocIds, name \in ColumnNames : StatusFind("u1", g, name)
  \/ StatusSave
  \/ \E s \in LexSearches : SearchStart(s)
  \/ \E outcome \in StoreOutcomes : SearchCount(outcome)
  \/ \E outcome \in StoreOutcomes : SearchPage(outcome)

SpecLexical == InitSearch /\ [][NextLexical]_vars

\* The sort modes on a mailbox of owner u1 whose two messages have the same
\* sender and different dates: a query that both hold in the sender email,
\* a query that is a LIKE wildcard, and no query.
SortSearches ==
  {search("u1", "hr", 1, DefaultLimit, NoFilters, "relevance"),
   search("u1", "_", 1, DefaultLimit, NoFilters, "relevance"),
   search("u1", "", 1, DefaultLimit, NoFilters, "relevance"),
   search("u1", " ", 1, DefaultLimit, NoFilters, "relevance"),
   search("u1", "", 1, DefaultLimit, NoFilters, "date_desc")}

InitSort ==
  /\ now = StartTime
  /\ ticks = 0
  /\ gmail = [d \in DocIds |-> IF d = 1 THEN LunchDetail ELSE OlderDetail]
  /\ InitDebounce
  /\ InitIndex
  /\ InitGemini("gemini")
  /\ InitLocal
  /\ InitPad
  /\ InitLexical
  /\ InitPrimary
  /\ InitSemantic
  /\ InitLoops

NextSort ==
  \/ \E d \in DocIds : IndexEmailStart("u1", mapToSearchDocument(d, gmail[d]))
  \/ \E c \in indexCalls : IndexFind(c)
  \/ \E c \in indexCalls : IndexSave(c)
  \/ \E s \in SortSearches : SearchStart(s)
  \/ \E outcome \in StoreOutcomes : SearchCount(outcome)
  \/ \E outcome \in StoreOutcomes : SearchPage(outcome)

SpecSort == InitSort /\ [][NextSort]_vars

\* Deleting messages of owner u1 between index calls and searches.
DeleteSearches == {search("u1", "invoice", 1, DefaultLimit, NoFilters, "relevance")}

NextDelete ==
  \/ \E d \in DocIds : IndexEmailStart("u1", mapToSearchDocument(d, gmail[d]))
  \/ \E c \in indexCalls : IndexFind(c)
  \/ \E c \in indexCalls : IndexSave(c)
  \/ \E g \in DocIds, outcome \in GmailOutcomes : DeleteEmail("u1", g, outcome)
  \/ \E s \in DeleteSearches : SearchStart(s)
  \/ \E outcome \in StoreOutcomes : SearchCount(outcome)
  \/ \E outcome \in StoreOutcomes : SearchPage(outcome)

SpecDelete == InitSearch /\ [][NextDelete]_vars

\* The requests that await an index call, beside the index calls of the
\* list views.
NextPrimary ==
  \/ \E u \in Owners, emails \in SUBSET DocIds : ReindexStart(u, emails)
  \/ \E u \in Owners, g \in DocIds : SendStart(u, g)
  \/ PrimaryResume
  \/ \E u \in Owners, d \in DocIds : IndexEmailStart(u, mapToSearchDocument(d, gmail[d]))
  \/ \E c \in indexCalls : IndexFind(c)
  \/ \E c \in indexCalls : IndexSave(c)

SpecPrimary == InitLocalProvider /\ [][NextPrimary]_vars

\* The semantic search of owner u1 beside the one index call and the
\* generateAndStoreEmbedding calls that fill the tables it reads.
SemanticCallers == {SemCaller, StoreCaller}
SemanticOutcomes == {"ok", "err429", "badDims"}

NextSemantic ==
  \/ nextCallId = 1 /\ IndexEmailStart("u1", mapToSearchDocument(1, gmail[1]))
  \/ \E c \in indexCalls : IndexFind(c)
  \/ \E c \in indexCalls : IndexSave(c)
  \/ \E doc \in docsWithBody({1}) :
       StoreStart("u1", doc.id, doc.subject, doc.bodyText)
  \/ \E outcome \in PgvectorOutcomes : StorePgvector(outcome)
  \/ \E outcome \in StoreOutcomes : StoreFindEmail(outcome)
  \/ StoreEmbedded
  \/ \E outcome \in StoreOutcomes : StoreFindVector(outcome)
  \/ \E outcome \in StoreOutcomes : StoreWrite(outcome)
  \/ \E s \in SemSearches : SemStart(s)
  \/ \E outcome \in PgvectorOutcomes : SemPgvector(outcome)
  \/ \E outcome \in StoreOutcomes : SemRecords(outcome)
  \/ SemEmbedded
  \/ \E outcome \in StoreOutcomes : SemVectors(outcome)
  \/ \E outcome \in StoreOutcomes : SemTotal(outcome)
  \/ \E c \in SemanticCallers : DelayElapsed(c)
  \/ \E c \in SemanticCallers : Send(c)
  \/ \E c \in SemanticCallers, outcome \in SemanticOutcomes : Respond(c, outcome)
  \/ Tick(RateStep, MaxSemanticTicks)

SpecSemantic == InitOneMailbox /\ [][NextSemantic]_vars

\* The state in which indexEmail has saved message 1 of owner u1 and
\* generateAndStoreEmbedding has written its embedding, both at the start
\* time with every call over (a state SpecSemantic reaches).
EmbeddedDoc == mapToSearchDocument(1, LunchDetail)

InitEmbedded ==
  /\ now = StartTime
  /\ ticks = 0
  /\ gmail = [d \in DocIds |-> LunchDetail]
  /\ InitDebounce
  /\ emailRows = {[id |-> 1, userId |-> "u1", gmailId |-> 1,
                   fields |-> searchFields(EmbeddedDoc)]}
  /\ nextEmailId = 2
  /\ indexCalls = {}
  /\ nextCallId = 2
  /\ indexLog = logSaved(logStart([k \in Keys |-> [contents |-> {}, saved |-> 0,
                                                   kinds |-> {}]],
                                  "u1", {EmbeddedDoc}),
                         "u1", {EmbeddedDoc}, "single")
  /\ provider = "gemini"
  /\ geminiModel = TRUE
  /\ quotaState = [quotaExceeded |-> FALSE, quotaExceededUntil |-> 0,
                   quotaCooldownMs |-> BaseCooldownMs, quotaErrorLogged |-> FALSE]
  /\ lastRequestTime = StartTime
  /\ embedCalls = [c \in Callers |-> idleCall]
  /\ batch = [pc |-> "idle", texts |-> <<>>, result |-> <<>>]
  /\ cooldowns = <<>>
  /\ cooldownCause = "none"
  /\ InitLocal
  /\ InitPad
  /\ InitLexical
  /\ InitPrimary
  /\ vectorRows = {[emailId |-> 1,
                    embedding |-> paddedVector(vectorOf(
                       textForEmbedding(EmbeddedDoc.subject, EmbeddedDoc.bodyText))),
                    embeddingUpdatedAt |-> StartTime]}
  /\ storeCall = idleStore
  /\ semSearch = idleSemantic
  /\ InitLoops

\* Both searches of owner u1 over that message, with every query of the
\* store and the request to the provider able to fail.
FailOpenLexical ==
  {search("u1", "team lunch", 1, DefaultLimit, NoFilters, "relevance"),
   search("u1", "invoice", 1, DefaultLimit, NoFilters, "relevance")}
FailOpenSemantic ==
  {search("u1", "Team Lunch", 1, DefaultLimit, NoFilters, "relevance"),
   search("u1", " ", 1, DefaultLimit, NoFilters, "relevance")}

NextFailOpen ==
  \/ \E s \in FailOpenSemantic : SemStart(s)
  \/ \E outcome \in PgvectorOutcomes : SemPgvector(outcome)
  \/ \E outcome \in StoreOutcomes : SemRecords(outcome)
  \/ SemEmbedded
  \/ \E outcome \in StoreOutcomes : SemVectors(outcome)
  \/ \E outcome \in StoreOutcomes : SemTotal(outcome)
  \/ \E s \in FailOpenLexical : SearchStart(s)
  \/ \E outcome \in StoreOutcomes : SearchCount(outcome)
  \/ \E outcome \in StoreOutcomes : SearchPage(outcome)
  \/ DelayElapsed(SemCaller)
  \/ Send(SemCaller)
  \/ \E outcome \in SemanticOutcomes : Respond(SemCaller, outcome)
  \/ Tick(RateStep, MaxSemanticTicks)

SpecFailOpen == InitEmbedded /\ [][NextFailOpen]_vars

(***************************************************************************)
(* Claims on the debounced batch                                           *)
(***************************************************************************)
\* C1: when N >= 2 enqueues of one owner arrive inside one debounce window,
\* the window produces exactly one batch execution, and that execution
\* covers every document (with body text) of every one of the N enqueues.
C1_DebounceCoversUnion ==
  \A t \in timers :
    (t.state = "running" /\ t.enqs >= 2) =>
      /\ docsWithBody(t.window) \subseteq docsWithBody(t.emails)
      /\ windowRuns[t.wid] = 1

\* C2: every owner has at most one armed timer, and the owner's entry of
\* pendingEmbeddingJobs is that timer.
C2_OneArmedTimerInMap ==
  \A u \in Owners :
    /\ Cardinality(armedOf(u)) <= 1
    /\ \A t \in armedOf(u) : pendingEmbeddingJobs[u] = t.id

(***************************************************************************)
(* Claims on the index                                                     *)
(***************************************************************************)
\* C9: once a key (owner, id) has been indexed successfully, and every call
\* for that key (indexEmail or bulkIndexEmails, finished or in progress,
\* in any order) carried the same content, the table holds exactly one row
\* of the key, and its search fields are those of that content.
C9_UpsertIdempotent ==
  \A k \in Keys :
    (indexLog[k].saved >= 1 /\ Cardinality(indexLog[k].contents) = 1) =>
      /\ Cardinality(rowsOfKey(emailRows, k[1], k[2])) = 1
      /\ \A r \in rowsOfKey(emailRows, k[1], k[2]) :
           \A doc \in indexLog[k].contents : r.fields = searchFields(doc)

\* C9 witness: a key indexed twice with identical content, once by
\* indexEmail and once by bulkIndexEmails, both finished.
C9_Witness ==
  \E k \in Keys :
    /\ indexLog[k].saved >= 2
    /\ indexLog[k].kinds = {"single", "bulk"}
    /\ Cardinality(indexLog[k].contents) = 1
    /\ indexCalls = {}

\* The length of the cooldown entered after k growths from the base length.
RECURSIVE cooldownAfter(_)
cooldownAfter(k) == IF k = 0 THEN BaseCooldownMs ELSE growCooldown(cooldownAfter(k - 1))

\* C3: the cooldowns entered one after the other with no success in
\* between, each after the previous one has expired, have strictly
\* increasing durations until the 24h ceiling is reached, and no cooldown
\* lasts longer than the ceiling: in every run, and along the whole ladder of
\* lengths that the growth produces from the base length.
C3_BackoffGrowsToCeiling ==
  /\ \A i \in 1..Len(cooldowns) : cooldowns[i] <= MaxCooldownMs
  /\ \A i \in 1..(Len(cooldowns) - 1) :
       cooldowns[i + 1] > cooldowns[i] \/ cooldowns[i] = MaxCooldownMs
  /\ \A k \in 0..MaxGrowths :
       /\ cooldownAfter(k) <= MaxCooldownMs
       /\ cooldownAfter(k + 1) > cooldownAfter(k) \/ cooldownAfter(k) = MaxCooldownMs

\* C3 witness: three cooldowns entered in a row without a success; the
\* governor is in the third.
C3_Witness ==
  /\ Len(cooldowns) = 3
  /\ InCooldown(quotaState)
  /\ cooldowns[1] < cooldowns[2] /\ cooldowns[2] < cooldowns[3]

\* C4: when no quota-class failure has happened since the last successful
\* request, quotaCooldownMs has its base value of 1h, and the first cooldown
\* entered after a success has the base length.
C4_SuccessResetsCooldown ==
  /\ cooldowns = <<>> => quotaState.quotaCooldownMs = BaseCooldownMs
  /\ cooldowns # <<>> => cooldowns[1] = BaseCooldownMs

\* C5: a remote embed call that starts while the governor is in Cooldown
\* has failed at once with the quota error and never waits for or sends a
\* request, and isAvailable() is false while the governor is in Cooldown.
C5_CooldownFailsFast ==
  /\ \A c \in Callers :
       embedCalls[c].gated =>
         embedCalls[c].pc = "idle" /\ embedCalls[c].result = "QuotaExceeded"
  /\ InCooldown(quotaState) => ~isAvailable(quotaState)

\* C5 witness: a call was refused while the governor is in Cooldown.
C5_Witness ==
  /\ InCooldown(quotaState)
  /\ \E c \in Callers : embedCalls[c].gated /\ embedCalls[c].result = "QuotaExceeded"

\* C6: every embedContent request goes out at least minRequestDelay after
\* the request before it.
C6_MinInterRequestDelay ==
  [][\A c \in Callers :
       (embedCalls[c].pc = "jitter" /\ embedCalls'[c].pc = "inflight"
          /\ lastRequestTime # 0)
         => now - lastRequestTime >= minRequestDelay]_vars

\* C10: the result of a batch has one position per input text, and the
\* vector at position i, when there is one, is the embedding of texts[i].
C10_BatchKeepsPositions ==
  batch.pc = "done" =>
    /\ Len(batch.result) = Len(batch.texts)
    /\ \A i \in 1..Len(batch.result) :
         batch.result[i] # NoVector => batch.result[i] = vectorOf(batch.texts[i])

\* C20: once an item of a running batch has failed with the quota error, no
\* request is sent to the provider for a later item of the batch, and no
\* later item adds a vector to the result.
C20_BatchStopsOnQuota ==
  [][\A c \in batchItems :
       (\E d \in batchItems :
          /\ d < c
          /\ embedCalls[d].pc = "idle"
          /\ embedCalls[d].result \in {"QuotaError", "QuotaExceeded"})
         => /\ ~(embedCalls[c].pc # "inflight" /\ embedCalls'[c].pc = "inflight")
            /\ ~(embedCalls[c].result # "ok" /\ embedCalls'[c].result = "ok")]_vars

\* C7: at most one load of the local model is in progress at any time, and
\* no load in progress was started when the model was already loaded.
C7_NoDuplicateLoads ==
  /\ Cardinality(loads) <= 1
  /\ \A l \in loads : ~l.modelWasLoaded

\* C7 witness: a load started by a request is in progress while another
\* caller, arrived during that load, waits.
C7_Witness ==
  /\ \E l \in loads : l.owner # Startup
  /\ \E c \in Callers : localCalls[c].pc = "poll" /\ localCalls[c].duringLoad = "running"

\* C8: a call that arrived while a load was in progress, and whose load has
\* succeeded, has not failed with the error "model failed to load".
C8_CallerWaitsForLoad ==
  \A c \in Callers :
    localCalls[c].duringLoad = "ok" => localCalls[c].result # "FailedToLoad"

\* C18: the governor enters Cooldown only through a quota/429-class error
\* of embedContent, never through another failure (an invalid response, a
\* 503), and quotaExceededUntil is set only while the governor is not in
\* Cooldown.
C18_CooldownOnlyOnQuotaFailure ==
  /\ [](cooldownCause \in {"none", "err429"})
  /\ [][(quotaState'.quotaExceeded
           /\ quotaState'.quotaExceededUntil # quotaState.quotaExceededUntil)
          => ~InCooldown(quotaState)]_vars

\* C19: once the clock has reached quotaExceededUntil, isAvailable() is true
\* and the gate of an embed call lets the call pass, both clearing the
\* cooldown; and a cooldown never ends later than 24h from now.
C19_CooldownExpires ==
  /\ (geminiModel /\ quotaState.quotaExceeded /\ now >= quotaState.quotaExceededUntil)
       => /\ isAvailable(quotaState)
          /\ ~quotaGate(quotaState)
          /\ ~isQuotaExceeded(quotaState).state.quotaExceeded
  /\ quotaState.quotaExceeded => quotaState.quotaExceededUntil <= now + MaxCooldownMs

\* C19 witness: a cooldown was entered and has expired, and a call that
\* started after it is on its way to the provider.
C19_Witness ==
  /\ cooldowns # <<>>
  /\ ~quotaState.quotaExceeded
  /\ now >= StartTime + BaseCooldownMs
  /\ \E c \in Callers : embedCalls[c].pc \in {"delay", "jitter", "inflight"}

\* C14: padEmbedding(v, w) is v when len(v) = w; v followed by zeros up to
\* length w when len(v) < w; the first w entries of v when len(v) > w.
C14_PadEmbedding ==
  padCase.called =>
    LET v == padCase.embedding
        w == padCase.targetDimensions
        r == padCase.result
    IN /\ Len(v) = w => r = v
       /\ Len(v) < w =>
            /\ Len(r) = w
            /\ \A i \in 1..Len(v) : r[i] = v[i]
            /\ \A i \in (Len(v) + 1)..w : r[i] = 0
       /\ Len(v) > w =>
            /\ Len(r) = w
            /\ \A i \in 1..w : r[i] = v[i]

\* C14 witness: a vector with a non-zero entry was padded with more than one
\* zero.
C14_Witness ==
  /\ padCase.called
  /\ Len(padCase.embedding) + 2 <= padCase.targetDimensions
  /\ \E i \in 1..Len(padCase.embedding) : padCase.embedding[i] # 0
  /\ Len(padCase.result) = padCase.targetDimensions

(***************************************************************************)
(* Claims on the lexical search                                            *)
(***************************************************************************)
\* The term occurs in the text, letter case aside.
contains(text, term) ==
  \E i \in 0..(Len(text) - Len(term)) :
    SubSeq(LOWER(text), i + 1, i + Len(term)) = LOWER(term)

\* The document holds the term literally in subject, sender name, sender
\* email or snippet; f gives the four texts, "" for a missing one.
literalMatch(f, term) ==
  \/ contains(chars(f.subject), term)
  \/ contains(chars(f.senderName), term)
  \/ contains(chars(f.senderEmail), term)
  \/ contains(chars(f.snippet), term)

\* The document is similar to the term in subject, sender name or sender
\* email.
fuzzyMatch(f, term) ==
  \/ aboveThreshold(similarity(chars(f.subject), term))
  \/ aboveThreshold(similarity(chars(f.senderName), term))
  \/ aboveThreshold(similarity(chars(f.senderEmail), term))

\* C15: in a search sorted by relevance, a returned document that holds the
\* query literally has a strictly greater score than, and stands before, a
\* returned document that matches by trigram similarity only.
C15_LiteralOutranksFuzzy ==
  LET s == lexSearch.call
      term == searchTerm(s.query)
      items == lexSearch.result.items
  IN (lexSearch.pc = "returned" /\ s.sort = "relevance" /\ term # <<>>) =>
       \A i, j \in 1..Len(items) :
         (/\ literalMatch(items[i], term)
          /\ ~literalMatch(items[j], term)
          /\ fuzzyMatch(items[j], term))
           => Less(items[j].score, items[i].score) /\ i < j

\* The texts of a stored row, "" for NULL.
textsOf(r) ==
  [subject |-> OrEmpty(r.fields.subject),
   senderName |-> OrEmpty(r.fields.senderName),
   senderEmail |-> OrEmpty(r.fields.senderEmail),
   snippet |-> OrEmpty(r.fields.snippet)]

\* The owner's stored documents that satisfy the match predicate and every
\* filter of the call.
qualifying(rows, columns, s) ==
  {r \in rows :
     /\ r.userId = s.owner
     /\ literalMatch(textsOf(r), searchTerm(s.query))
          \/ fuzzyMatch(textsOf(r), searchTerm(s.query))
     /\ s.filters.unreadOnly => columnName(columns, r.id) = "Inbox"
     /\ s.filters.status # "" => columnName(columns, r.id) = s.filters.status
     /\ s.filters.sender # "" =>
          \/ contains(chars(textsOf(r).senderName), chars(s.filters.sender))
          \/ contains(chars(textsOf(r).senderEmail), chars(s.filters.sender))}

\* C16: for a query that is not blank, the total that the count query gives
\* is the number of the owner's stored documents that hold the query
\* literally or are trigram-similar to it and pass every filter, and every
\* item that the page query gives is one of those documents.
C16_TotalCountsMatches ==
  [][LET s == lexSearch.call
         docs == qualifying(emailRows, columnOf, s)
     IN searchTerm(s.query) # <<>> =>
          /\ (lexSearch.pc = "count" /\ lexSearch'.pc = "page")
               => lexSearch'.total = Cardinality(docs)
          /\ (lexSearch.pc = "page" /\ lexSearch'.pc = "returned"
                 /\ ~lexSearch'.storeThrew)
               => /\ lexSearch'.result.total = lexSearch.total
                  /\ \A i \in 1..Len(lexSearch'.result.items) :
                       \E r \in docs : r.gmailId = lexSearch'.result.items[i].id]_vars

\* C17: a search that starts after deleteEmail(owner, id) has returned does
\* not return the document of that id, unless the message was indexed again
\* in between.
C17_DeletedNotReturned ==
  lexSearch.pc = "returned" =>
    \A i \in 1..Len(lexSearch.result.items) :
      LET k == <<lexSearch.call.owner, lexSearch.result.items[i].id>>
      IN <<k, indexLog[k].saved>> \notin lexSearch.afterDelete

(***************************************************************************)
(* Claims on the requests that trigger indexing                            *)
(***************************************************************************)
\* C13: a failure of the index call that reindexMailboxEmails or sendEmail
\* awaits never makes the request fail: the request returns its normal
\* result.
C13_IndexingNeverFailsRequest == primaryCall.pc # "threw"

\* bulkIndexEmails of owner u1 (from the debounced callback or from
\* reindexMailboxEmails) with its background loops and the provider.
LoopDocs == {mapToSearchDocument(d, gmail[d]) : d \in DocIds}

NextLoop ==
  \/ \E docs \in SUBSET LoopDocs : BulkIndexStart("u1", docs)
  \/ \E c \in indexCalls : IndexFind(c)
  \/ \E c \in indexCalls : IndexSave(c)
  \/ \E c \in indexCalls, outcome \in StoreOutcomes : BulkFindSaved(c, outcome)
  \/ \E c \in indexCalls, outcome \in StoreOutcomes : BulkFindVectors(c, outcome)
  \/ \E j \in LoopIds, outcome \in PgvectorOutcomes : LoopPgvector(j, outcome)
  \/ \E j \in LoopIds, outcome \in StoreOutcomes : LoopFindEmail(j, outcome)
  \/ \E j \in LoopIds : LoopEmbedded(j)
  \/ \E j \in LoopIds, outcome \in StoreOutcomes : LoopFindVector(j, outcome)
  \/ \E j \in LoopIds, outcome \in StoreOutcomes : LoopWrite(j, outcome)
  \/ \E c \in LoopIds : DelayElapsed(c)
  \/ \E c \in LoopIds : Send(c)
  \/ \E c \in LoopIds, outcome \in SemanticOutcomes : Respond(c, outcome)
  \/ Tick(RateStep, MaxSemanticTicks)

SpecLoop == InitOneMailbox /\ [][NextLoop]_vars

\* The state in which bulkIndexEmails has saved message 1 of owner u1 once
\* per loop and every loop has started for it, none having passed its
\* first await (a state SpecLoop reaches): concurrent calls of
\* generateAndStoreEmbedding for one document.
InitStore ==
  /\ now = StartTime
  /\ ticks = 0
  /\ gmail = [d \in DocIds |-> LunchDetail]
  /\ InitDebounce
  /\ emailRows = {[id |-> 1, userId |-> "u1", gmailId |-> 1,
                   fields |-> searchFields(EmbeddedDoc)]}
  /\ nextEmailId = 2
  /\ indexCalls = {}
  /\ nextCallId = NumCallers + 1
  /\ indexLog = [k \in Keys |->
                   IF k = <<"u1", 1>>
                     THEN [contents |-> {EmbeddedDoc}, saved |-> NumCallers,
                           kinds |-> {"bulk"}]
                     ELSE [contents |-> {}, saved |-> 0, kinds |-> {}]]
  /\ InitGemini("gemini")
  /\ InitLocal
  /\ InitPad
  /\ InitLexical
  /\ InitPrimary
  /\ InitSemantic
  /\ embedLoops = [j \in LoopIds |->
                     [idleLoop EXCEPT !.pc = "pgvector", !.docs = <<EmbeddedDoc>>,
                                      !.i = 1]]

NextStore ==
  \/ \E j \in LoopIds, outcome \in PgvectorOutcomes : LoopPgvector(j, outcome)
  \/ \E j \in LoopIds, outcome \in StoreOutcomes : LoopFindEmail(j, outcome)
  \/ \E j \in LoopIds : LoopEmbedded(j)
  \/ \E j \in LoopIds, outcome \in StoreOutcomes : LoopFindVector(j, outcome)
  \/ \E j \in LoopIds, outcome \in StoreOutcomes : LoopWrite(j, outcome)
  \/ \E c \in LoopIds : DelayElapsed(c)
  \/ \E c \in LoopIds : Send(c)
  \/ \E c \in LoopIds, outcome \in SemanticOutcomes : Respond(c, outcome)
  \/ Tick(RateStep, MaxSemanticTicks)

SpecStore == InitStore /\ [][NextStore]_vars

\* Either provider behind one background loop and the semantic search of
\* owner u1: message 1 has been saved by bulkIndexEmails, the loop has
\* started for it under the caller StoreCaller, and with the local provider
\* the model has been loaded.
WidthSearches ==
  {search("u1", "Team Lunch", 1, DefaultLimit, NoFilters, "relevance")}

InitWidth ==
  /\ now = StartTime
  /\ ticks = 0
  /\ gmail = [d \in DocIds |-> LunchDetail]
  /\ InitDebounce
  /\ emailRows = {[id |-> 1, userId |-> "u1", gmailId |-> 1,
                   fields |-> searchFields(EmbeddedDoc)]}
  /\ nextEmailId = 2
  /\ indexCalls = {}
  /\ nextCallId = 2
  /\ indexLog = logSaved(logStart([k \in Keys |-> [contents |-> {}, saved |-> 0,
                                                   kinds |-> {}]],
                                  "u1", {EmbeddedDoc}),
                         "u1", {EmbeddedDoc}, "bulk")
  /\ \E p \in {"gemini", "local"} :
       /\ InitGemini(p)
       /\ booted = IF p = "local" THEN "ready" ELSE "start"
       /\ localModel = (p = "local")
  /\ isLocalModelLoading = FALSE
  /\ loads = {}
  /\ localCalls = [c \in Callers |-> idleLocal]
  /\ InitPad
  /\ InitLexical
  /\ InitPrimary
  /\ InitSemantic
  /\ embedLoops = [j \in LoopIds |->
                     IF j = StoreCaller
                       THEN [idleLoop EXCEPT !.pc = "pgvector",
                                             !.docs = <<EmbeddedDoc>>, !.i = 1]
                       ELSE idleLoop]

NextWidth ==
  \/ \E outcome \in PgvectorOutcomes : LoopPgvector(StoreCaller, outcome)
  \/ \E outcome \in StoreOutcomes : LoopFindEmail(StoreCaller, outcome)
  \/ \E outcome \in StoreOutcomes : LoopFindEmailLocal(StoreCaller, outcome)
  \/ LoopEmbedded(StoreCaller)
  \/ LoopEmbeddedLocal(StoreCaller)
  \/ \E outcome \in StoreOutcomes : LoopFindVector(StoreCaller, outcome)
  \/ \E outcome \in StoreOutcomes : LoopWrite(StoreCaller, outcome)
  \/ \E s \in WidthSearches : SemStart(s)
  \/ \E s \in WidthSearches : SemStartLocal(s)
  \/ \E outcome \in PgvectorOutcomes : SemPgvector(outcome)
  \/ \E outcome \in StoreOutcomes : SemRecords(outcome)
  \/ \E outcome \in StoreOutcomes : SemRecordsLocal(outcome)
  \/ SemEmbedded
  \/ SemEmbeddedLocal
  \/ \E outcome \in StoreOutcomes : SemVectors(outcome)
  \/ \E outcome \in StoreOutcomes : SemTotal(outcome)
  \/ \E c \in SemanticCallers : DelayElapsed(c)
  \/ \E c \in SemanticCallers : Send(c)
  \/ \E c \in SemanticCallers, outcome \in SemanticOutcomes : Respond(c, outcome)
  \/ \E c \in SemanticCallers, outcome \in {"ok", "Error"} : Infer(c, outcome)
  \/ Tick(RateStep, MaxSemanticTicks)

SpecWidth == InitWidth /\ [][NextWidth]_vars

\* Two owners: u1 has indexed message 1 and u2 message 2, the same text,
\* and both embeddings have been written.  Both search, by words and by
\* meaning, while u2 indexes the message that u1 holds under id 1.
OtherDoc == mapToSearchDocument(2, LunchDetail)

OwnerSearches ==
  {search(u, "Team Lunch", 1, DefaultLimit, NoFilters, "relevance") : u \in Owners}
    \cup {search("u1", "", 1, DefaultLimit,
                 [NoFilters EXCEPT !.sender = "hr"], "date_desc")}

OwnerSemSearches ==
  {search(u, "Team Lunch", 1, DefaultLimit, NoFilters, "relevance") : u \in Owners}

InitOwners ==
  /\ now = StartTime
  /\ ticks = 0
  /\ gmail = [d \in DocIds |-> LunchDetail]
  /\ InitDebounce
  /\ emailRows = {[id |-> 1, userId |-> "u1", gmailId |-> 1,
                   fields |-> searchFields(EmbeddedDoc)],
                  [id |-> 2, userId |-> "u2", gmailId |-> 2,
                   fields |-> searchFields(OtherDoc)]}
  /\ nextEmailId = 3
  /\ indexCalls = {}
  /\ nextCallId = MaxIndexCalls
  /\ indexLog = logSaved(logSaved(logStart(logStart(
                    [k \in Keys |-> [contents |-> {}, saved |-> 0, kinds |-> {}]],
                    "u1", {EmbeddedDoc}), "u2", {OtherDoc}),
                    "u1", {EmbeddedDoc}, "bulk"), "u2", {OtherDoc}, "bulk")
  /\ provider = "gemini"
  /\ geminiModel = TRUE
  /\ quotaState = [quotaExceeded |-> FALSE, quotaExceededUntil |-> 0,
                   quotaCooldownMs |-> BaseCooldownMs, quotaErrorLogged |-> FALSE]
  /\ lastRequestTime = StartTime
  /\ embedCalls = [c \in Callers |-> idleCall]
  /\ batch = [pc |-> "idle", texts |-> <<>>, result |-> <<>>]
  /\ cooldowns = <<>>
  /\ cooldownCause = "none"
  /\ InitLocal
  /\ InitPad
  /\ InitLexical
  /\ InitPrimary
  /\ vectorRows = {[emailId |-> pk,
                    embedding |-> paddedVector(generatedEmbedding(
                       textForEmbedding(EmbeddedDoc.subject, EmbeddedDoc.bodyText))),
                    embeddingUpdatedAt |-> StartTime] : pk \in {1, 2}}
  /\ storeCall = idleStore
  /\ semSearch = idleSemantic
  /\ InitLoops

NextOwners ==
  \/ IndexEmailStart("u2", mapToSearchDocument(1, gmail[1]))
  \/ \E c \in indexCalls : IndexFind(c)
  \/ \E c \in indexCalls : IndexSave(c)
  \/ \E s \in OwnerSemSearches : SemStart(s)
  \/ \E outcome \in PgvectorOutcomes : SemPgvector(outcome)
  \/ \E outcome \in StoreOutcomes : SemRecords(outcome)
  \/ SemEmbedded
  \/ \E outcome \in StoreOutcomes : SemVectors(outcome)
  \/ \E outcome \in StoreOutcomes : SemTotal(outcome)
  \/ \E s \in OwnerSearches : SearchStart(s)
  \/ \E outcome \in StoreOutcomes : SearchCount(outcome)
  \/ \E outcome \in StoreOutcomes : SearchPage(outcome)
  \/ DelayElapsed(SemCaller)
  \/ Send(SemCaller)
  \/ \E outcome \in SemanticOutcomes : Respond(SemCaller, outcome)
  \/ Tick(RateStep, MaxSemanticTicks)

SpecOwners == InitOwners /\ [][NextOwners]_vars

(***************************************************************************)
(* Claims on the semantic search and on failures of the searches           *)
(***************************************************************************)
\* C11: a semantic search that finds the provider unavailable, or counts no
\* embedding of the owner, returns the empty result in that same step and
\* has made no call to the embedding provider.
C11_SemanticPreconditions ==
  (semSearch.sawUnavailable \/ semSearch.sawNoRecords) =>
    /\ semSearch.pc = "returned"
    /\ semSearch.result = EmptyResult
    /\ ~semSearch.calledEmbed
    /\ embedCalls[SemCaller] = idleCall

\* The provider is in Cooldown while the owner has embeddings, and a search
\* has returned on finding it unavailable.
C11_Witness ==
  /\ semSearch.sawUnavailable
  /\ semSearch.pc = "returned"
  /\ vectorsOf(emailRows, vectorRows, semSearch.call.owner) # {}

\* C12: a search in which a query of the store or the request to the
\* provider threw returns the empty result, and no search ends by throwing.
C12_SearchFailOpen ==
  /\ lexSearch.pc # "thrown"
  /\ lexSearch.storeThrew => lexSearch.pc = "returned" /\ lexSearch.result = EmptyResult
  /\ semSearch.failed => semSearch.pc = "returned" /\ semSearch.result = EmptyResult

\* The lexical search has returned after its page query threw while the
\* owner has a matching document, and the semantic search after its vector
\* query or its provider failed while the owner has an embedding.
C12_Witness ==
  /\ lexSearch.storeThrew
  /\ selected(emailRows, columnOf, lexSearch.call) # {}
  /\ semSearch.failed
  /\ semSearch.calledEmbed
  /\ vectorsOf(emailRows, vectorRows, semSearch.call.owner) # {}

(***************************************************************************)
(* Claims on a failed load of the local model                              *)
(***************************************************************************)
\* Requests are served and the model is missing with no load in progress:
\* the load of onModuleInit, or a later one, has ended in the catch block.
loadHasFailed == booted = "ready" /\ ~localModel /\ loads = {}

\* C21: once a load of the local model has failed, no later call starts
\* another load and the model stays missing, so that the provider reports
\* unavailable for the rest of the process.
C21_FailedLoadIsPermanent ==
  [][loadHasFailed => (loads' = {} /\ ~localModel')]_vars

(***************************************************************************)
(* Claims on the background embedding loop and on table email_vectors      *)
(***************************************************************************)
\* C22: a loop asks for embeddings only of documents with body text, and
\* the provider is never asked (generateEmbedding is never called) for a
\* document that has an EmbeddingRecord at that moment, whatever the
\* interleaving of the executions of bulkIndexEmails for the owner.
C22_EmbedOnlyMissing ==
  /\ [](\A j \in LoopIds :
         \A n \in 1..Len(embedLoops[j].docs) : embedLoops[j].docs[n].bodyText # "")
  /\ [][\A j \in LoopIds :
          (embedLoops[j].pc # "embed" /\ embedLoops'[j].pc = "embed")
            => ~\E v \in vectorRows : v.emailId = embedLoops'[j].pk]_vars

\* C25: table email_vectors holds at most one row per document; every step
\* that changes the table is one write of a loop, which changes the row of
\* that loop's document only and leaves it with a vector of the canonical
\* width and the time of the write; concurrent calls for one document
\* never leave two rows or a partial row.
C25_OneFullRecordPerDocument ==
  /\ [](\A v, w \in vectorRows : v.emailId = w.emailId => v = w)
  /\ [](\A v \in vectorRows :
         v.embedding # NoVector /\ v.embedding.dims = CanonicalWidth)
  /\ [][vectorRows' # vectorRows =>
          \E j \in LoopIds :
            /\ embedLoops[j].pc \in {"update", "insert"}
            /\ embedLoops'[j].pc \notin {"update", "insert"}
            /\ \A v \in vectorRows' \ vectorRows :
                 /\ v.emailId = embedLoops[j].pk
                 /\ v.embedding = embedLoops[j].embedding
                 /\ v.embeddingUpdatedAt = now
            /\ \A v \in vectorRows \ vectorRows' : v.emailId = embedLoops[j].pk]_vars

\* Two loops have written the embedding of the same document, one by INSERT
\* and one later by UPDATE, and a third write was rejected or not reached:
\* one row is there, written at a later time than the start.
C25_Witness ==
  /\ \E v \in vectorRows : v.emailId = 1 /\ v.embeddingUpdatedAt > StartTime
  /\ \A j \in LoopIds : embedLoops[j].pc = "idle"

\* The score the documentation gives a document for a term: the greatest
\* of 3.0 when the subject holds the term, 2.5 when the sender name or the
\* sender email holds it, 1.5 when the snippet holds it, and the trigram
\* similarities of subject, sender name and sender email times 2.0, 1.5
\* and 1.5.
documentedScore(f, term) ==
  GREATEST({
    IF contains(chars(f.subject), term) THEN <<30, 10>> ELSE <<0, 1>>,
    IF contains(chars(f.senderName), term) THEN <<25, 10>> ELSE <<0, 1>>,
    IF contains(chars(f.senderEmail), term) THEN <<25, 10>> ELSE <<0, 1>>,
    IF contains(chars(f.snippet), term) THEN <<15, 10>> ELSE <<0, 1>>,
    Times(similarity(LOWER(chars(f.subject)), LOWER(term)), <<20, 10>>),
    Times(similarity(LOWER(chars(f.senderName)), LOWER(term)), <<15, 10>>),
    Times(similarity(LOWER(chars(f.senderEmail)), LOWER(term)), <<15, 10>>)})

\* C23: in a search sorted by relevance with a query that is not blank,
\* every returned document carries the documented score (the greatest of
\* the literal weights 3.0 / 2.5 / 2.5 / 1.5 and the weighted trigram
\* similarities), the documents stand in descending order of that score,
\* and documents of equal score stand in descending order of receivedAt.
C23_ScoreAndOrder ==
  LET s == lexSearch.call
      term == searchTerm(s.query)
      items == lexSearch.result.items
  IN (lexSearch.pc = "returned" /\ s.sort = "relevance" /\ term # <<>>) =>
       /\ \A i \in 1..Len(items) :
            LET d == documentedScore(items[i], term)
            IN ~Less(items[i].score, d) /\ ~Less(d, items[i].score)
       /\ \A i, j \in 1..Len(items) :
            i < j =>
              /\ ~Less(items[i].score, items[j].score)
              /\ ~Less(items[j].score, items[i].score) =>
                   receivedOrder(items[i].receivedAt)
                     >= receivedOrder(items[j].receivedAt)

\* C24: a search sorted by relevance with an empty or blank query returns
\* the documents in descending order of receivedAt, as the sort mode
\* date_desc does.
C24_BlankRelevanceIsDateDesc ==
  LET s == lexSearch.call
      items == lexSearch.result.items
  IN (lexSearch.pc = "returned" /\ s.sort = "relevance"
        /\ searchTerm(s.query) = <<>>) =>
       \A i, j \in 1..Len(items) :
         i < j => receivedOrder(items[i].receivedAt)
                    >= receivedOrder(items[j].receivedAt)

\* C27: whichever provider is configured, every vector that
\* generateAndStoreEmbedding holds for writing or has written to
\* email_vectors, and every query vector that searchSemantic compares with
\* them, is 768 wide.
C27_StoredAndQueryWidth ==
  /\ \A v \in vectorRows : v.embedding.dims = CanonicalWidth
  /\ \A j \in LoopIds :
       embedLoops[j].pc \in {"findVector", "update", "insert"}
         => embedLoops[j].embedding.dims = CanonicalWidth
  /\ semSearch.pc \in {"vectors", "total"} =>
       semSearch.queryEmbedding.dims = CanonicalWidth

\* The local provider, 384 wide, has produced the stored vector and the
\* query vector that the vector query is about to compare.
C27_Witness ==
  /\ provider = "local"
  /\ embeddingDimensions = LocalDimensions
  /\ vectorRows # {}
  /\ semSearch.pc = "vectors"

\* The ids under which an owner has documents in the index, and under
\* which the owner has documents with an embedding.
idsOf(u) == {r.gmailId : r \in {x \in emailRows : x.userId = u}}
embeddedIdsOf(u) ==
  {r.gmailId : r \in {x \in emailRows :
                       x.userId = u /\ \E v \in vectorRows : v.emailId = x.id}}

\* C28: whatever the query and the filters, the count and the page of a
\* lexical search, and the page and the count of a semantic search, hold
\* documents of the searching owner only: the total is at most the number
\* of the owner's documents and every item carries the id of one of them,
\* while the other owner holds documents that match the same query.
C28_OwnerIsolation ==
  [][/\ (lexSearch.pc = "count" /\ lexSearch'.pc = "page")
         => lexSearch'.total <= Cardinality(idsOf(lexSearch.call.owner))
     /\ (lexSearch.pc = "page" /\ lexSearch'.pc = "returned")
         => \A i \in 1..Len(lexSearch'.result.items) :
              lexSearch'.result.items[i].id \in idsOf(lexSearch.call.owner)
     /\ (semSearch.pc = "vectors" /\ semSearch'.pc = "total")
         => \A i \in 1..Len(semSearch'.rows) :
              semSearch'.rows[i].id \in embeddedIdsOf(semSearch.call.owner)
     /\ (semSearch.pc = "total" /\ semSearch'.pc = "returned")
         => semSearch'.result.total
              <= Cardinality(embeddedIdsOf(semSearch.call.owner))]_vars

\* Owner u1 has searched by meaning and got its one document, and by words
\* and got its one document, while u2 holds a document of the same text
\* with an embedding.
C28_Witness ==
  /\ \E r \in emailRows : r.userId = "u2" /\ \E v \in vectorRows : v.emailId = r.id
  /\ semSearch.pc = "returned" /\ semSearch.call.owner = "u1"
  /\ semSearch.result.total = 1 /\ Len(semSearch.result.items) = 1
  /\ lexSearch.pc = "returned" /\ lexSearch.call.owner = "u1"
  /\ lexSearch.result.total = 1 /\ Len(lexSearch.result.items) = 1

\* C29: while the governor is in Cooldown and the time of its end has not
\* come, no step clears quotaExceeded or moves quotaExceededUntil; so the
\* success of a request that had passed the gate before the failure does
\* not make isAvailable() true before the cooldown is over.
C29_CooldownOutlivesSuccess ==
  [][(InCooldown(quotaState) /\ now' < quotaState.quotaExceededUntil)
       => /\ quotaState'.quotaExceeded
          /\ quotaState'.quotaExceededUntil = quotaState.quotaExceededUntil]_vars

\* C30: quotaCooldownMs changes only in a step that takes the governor
\* from Available into Cooldown, and then to 1.5 times its value (at most
\* 24h): requests in flight together that all fail with a quota error
\* grow it once.
C30_GrowsOncePerCooldown ==
  [][quotaState'.quotaCooldownMs # quotaState.quotaCooldownMs
       => /\ ~quotaState.quotaExceeded
          /\ quotaState'.quotaExceeded
          /\ quotaState'.quotaCooldownMs = growCooldown(quotaState.quotaCooldownMs)]_vars

\* C26: every call of generateEmbedding ends: a call of the remote
\* provider that waits in the delay gate, in the jitter, for the answer or
\* in the rate-limit back-off, and a call of the local provider that polls
\* a load in progress (for 30 seconds at most, whether or not that load
\* ever ends), waits for the load it started itself or for the inference,
\* returns a vector or throws, provided the load the call itself started
\* comes to an end.
C26_EveryCallEnds ==
  \A c \in LiveCallers :
    WF_vars(OwnLoadFinish(c)) =>
      ((embedCalls[c].pc # "idle" \/ localCalls[c].pc # "idle")
         ~> (embedCalls[c].pc = "idle" /\ localCalls[c].pc = "idle"))

\* A call has given up after its 30 polls while the load it waited for is
\* still in progress.
C26_Witness ==
  \E c \in LiveCallers :
    /\ isLocalModelLoading
    /\ localCalls[c].pc = "idle"
    /\ localCalls[c].duringLoad = "running"
    /\ localCalls[c].result = "FailedToLoad"
    /\ ticks >= MaxPollAttempts

====
